---- MODULE Spec2Model ----
(***************************************************************************)
(* A model of guibender's ImageFinder (src/guibender/imagefinder.py).      *)
(*                                                                         *)
(* Similarities and correlation values are fixed-point numbers in units of *)
(* 1/Levels: the value Levels stands for 1.0, 0 for 0.0.  A correlation    *)
(* surface is the array cv2.matchTemplate returns: result[j][i] with row   *)
(* j in 0..res_h-1 and column i in 0..res_w-1.  The OpenCV calls are       *)
(* library code; their outputs (the surface, the detected keypoints, the   *)
(* descriptor matches, the inlier mask) are inputs drawn from small sets.  *)
(***************************************************************************)
EXTENDS Integers, Sequences, FiniteSets, TLC

\* ------------------------------------------------------------------ bounds
\* 1.0 in fixed-point units; values and similarities range over 0..Levels
Levels == 2
\* a needle is at most MaxNeedle x MaxNeedle pixels
MaxNeedle == 2
\* a correlation surface has at most MaxCells cells
MaxCells == 3
\* a detector finds at most MaxKp keypoints in an image
MaxKp == 4
\* the detection loop is followed for at most MaxRounds rounds
MaxRounds == 6
\* a tiled haystack is at most MaxSide x MaxSide pixels
MaxSide == 3
\* the symmetric matching is given at most MaxDescriptors descriptors of
\* each image
MaxDescriptors == 2
\* a timeout given to Region.find is at most MaxTimeout seconds
MaxTimeout == 2
\* the loop of Region.find is followed for at most MaxAttempts attempts
MaxAttempts == 3

VARIABLES
    current,        \* eq.current: the configured algorithm names
    image_logging,  \* self.image_logging
    hotmap,         \* self.hotmap: [img, sim, loc]
    bitmapcache,    \* self._bitmapcache: the cached needle file names
    call,           \* the arguments of the call in progress or last made
    steps,          \* the processing steps of that call, in order of first use
    ret,            \* how the call ended
    frame           \* the local variables of a feature search in progress

vars == <<current, image_logging, hotmap, bitmapcache, call, steps, ret, frame>>

\* ------------------------------------------------------------- value sets
Vals == 0..Levels
Sims == 0..Levels

NoLoc == <<-1, -1>>
Location(x, y) == <<x, y>>

\* the keys of the methods dictionary of _match_template
methods ==
    {"sqdiff", "sqdiff_normed", "ccorr", "ccorr_normed", "ccoeff", "ccoeff_normed"}

\* eq.algorithms["template_matchers"]: the OpenCV methods and autopy
template_matchers == methods \cup {"autopy"}

\* the names a caller may configure, one of them unsupported
TMatchNames == template_matchers \cup {"unsupported"}

DefaultCurrent ==
    [find |-> "template", tmatch |-> "ccoeff_normed", fdetect |-> "ORB",
     fextract |-> "ORB", fmatch |-> "BruteForce-Hamming"]

TemplateConfigs == {[DefaultCurrent EXCEPT !.tmatch = t] : t \in TMatchNames}

\* ------------------------------------------------------------ call records
\* op is the matcher entered, via the method the caller called; matched is
\* the list the descriptor matcher last yielded, inliers the number of its
\* pairs the mask of cv2.findHomography marks with 1 (-1: none estimated),
\* psim and point the similarity and the point _project_needle_center
\* computed, file the needle file the autopy branch asked for
NoCall == [op |-> "none", via |-> "none", W |-> 0, H |-> 0, w |-> 0, h |-> 0,
           sim |-> 0, surface |-> <<>>, geometry |-> <<>>,
           matched |-> <<>>, inliers |-> -1,
           psim |-> [num |-> 0, den |-> 1], point |-> <<-1, -1>>,
           file |-> "none"]

TemplateCall(op, W, H, w, h, similarity, surface) ==
    [NoCall EXCEPT !.op = op, !.via = op, !.W = W, !.H = H, !.w = w, !.h = h,
                   !.sim = similarity, !.surface = surface]

NoRet == [kind |-> "none", loc |-> NoLoc, maxima |-> <<>>, err |-> "none",
          grid |-> <<>>, locations |-> <<>>]

RetLocation(l) == [NoRet EXCEPT !.kind = "Location", !.loc = l]
RetNone == [NoRet EXCEPT !.kind = "None"]
RetList(m) == [NoRet EXCEPT !.kind = "list", !.maxima = m]
\* the loop of the call never ends; m is what it had recorded when its state
\* first repeated
RetDiverges(m) == [NoRet EXCEPT !.kind = "diverges", !.maxima = m]
Raise(e) == [NoRet EXCEPT !.kind = "raise", !.err = e]

Step(op, arg) == [op |-> op, arg |-> arg]

\* steps with st added, unless a step of that kind is in it already
Log(sq, st) == IF \E k \in 1..Len(sq) : sq[k] = st THEN sq ELSE Append(sq, st)

\* A similarity held in hotmap[1] or in the score grid: the float num/den.
\* Template scores are num/Levels; den = 0 is a division that cannot be made.
Ratio(num, den) == [num |-> num, den |-> den]
Literal(v) == Ratio(v, 1)

\* "hotmap[1] < similarity" for a required similarity of s/Levels
RatioBelow(r, s) == r.num * Levels < s * r.den

\* the initial hotmap: [None, -1.0, None]
InitHotmap == [img |-> "None", sim |-> Literal(-1), loc |-> NoLoc]

\* --------------------------------------------------------------- surfaces
res_w(W, w) == W - w + 1
res_h(H, h) == H - h + 1

\* the surfaces cv2.matchTemplate can return for a rw x rh result
Surfaces(rw, rh) == [0..(rh - 1) -> [0..(rw - 1) -> Vals]]

Cells(rw, rh) == {<<i, j>> : i \in 0..(rw - 1), j \in 0..(rh - 1)}

Width(result) == Cardinality(DOMAIN result[0])
Height(result) == Cardinality(DOMAIN result)

\* position of a cell in the row-major scan of the array
ScanIndex(result, c) == c[2] * Width(result) + c[1]

\* cv2.minMaxLoc: the extreme values and the first cell, in scan order,
\* holding each; locations are (x, y) = (column, row)
minMaxLoc(result) ==
    LET cs == Cells(Width(result), Height(result))
        val(c) == result[c[2]][c[1]]
        minVal == CHOOSE v \in Vals :
                    /\ \E c \in cs : val(c) = v
                    /\ \A c \in cs : val(c) >= v
        maxVal == CHOOSE v \in Vals :
                    /\ \E c \in cs : val(c) = v
                    /\ \A c \in cs : val(c) =< v
        first(v) == CHOOSE c \in cs :
                    /\ val(c) = v
                    /\ \A d \in cs : val(d) = v =>
                           ScanIndex(result, c) =< ScanIndex(result, d)
    IN [minVal |-> minVal, maxVal |-> maxVal,
        minLoc |-> first(minVal), maxLoc |-> first(maxVal)]

\* "switch max and min for sqdiff and sqdiff_normed"
IsSqdiff(tmatch) == tmatch \in {"sqdiff", "sqdiff_normed"}

\* the best score and its location as find_template and find_all read them
BestPeak(result, tmatch) ==
    LET mm == minMaxLoc(result)
    IN IF IsSqdiff(tmatch)
       THEN [maxVal |-> Levels - mm.minVal, maxLoc |-> mm.minLoc]
       ELSE [maxVal |-> mm.maxVal, maxLoc |-> mm.maxLoc]

\* mutant: the acceptance test admits equality
ExceedsSimilarity_ge(maxVal, similarity) == maxVal >= similarity

\* "if maxVal > similarity": the acceptance test of find_template
ExceedsSimilarity(maxVal, similarity) == maxVal > similarity

\* mutant: the stop test is inverted
BelowSimilarity_gt(maxVal, similarity) == maxVal > similarity

\* "if maxVal < similarity: break": the stop test of find_all
BelowSimilarity(maxVal, similarity) == maxVal < similarity

\* int(0.5 * n) for a non-negative size n
HalfSize(n) == n \div 2

Max2(a, b) == IF a >= b THEN a ELSE b
Min2(a, b) == IF a =< b THEN a ELSE b

\* ------------------------------------------------------- _match_template
\* The sanity check, the method lookup and the correlation.  surface is the
\* array cv2.matchTemplate returns on these images.  kind "None" is the
\* early "return None" of the sanity check.
_match_template(W, H, w, h, match, surface) ==
    IF W < w \/ H < h
    THEN [kind |-> "None", result |-> <<>>,
          steps |-> <<Step("size_check", "larger")>>]
    ELSE IF match \notin methods
    THEN [kind |-> "raise", result |-> <<>>,
          steps |-> <<Step("size_check", "ok")>>]
    ELSE [kind |-> "match", result |-> surface,
          steps |-> <<Step("size_check", "ok"),
                      Step("_prepare_image", "haystack"),
                      Step("_prepare_image", "needle"),
                      Step("matchTemplate", match)>>]

\* What cv2.minMaxLoc does when handed None instead of an array depends on
\* the OpenCV build: it rejects the argument with one of these errors.
NoneSurfaceErrors == {"TypeError", "cv2.error"}

\* ---------------------------------------------------------- find_template
\* the OpenCV branch of find_template, given the outcome m of _match_template
find_template_opencv(m, tmatch, similarity, logging, hm) ==
    IF m.kind = "raise"
    THEN [ret |-> {Raise("ImageFinderMethodError")}, steps |-> m.steps, hotmap |-> hm]
    ELSE IF m.kind = "None"
    THEN [ret |-> {Raise(e) : e \in NoneSurfaceErrors},
          steps |-> Append(m.steps, Step("minMaxLoc", "None")), hotmap |-> hm]
    ELSE
      LET pk == BestPeak(m.result, tmatch)
          logged == IF logging =< 40 THEN [hm EXCEPT !.img = "surface"] ELSE hm
          st == Append(m.steps, Step("minMaxLoc", "surface"))
      IN IF ExceedsSimilarity(pk.maxVal, similarity)
         THEN [ret |-> {RetLocation(Location(pk.maxLoc[1], pk.maxLoc[2]))},
               steps |-> st,
               hotmap |-> [logged EXCEPT !.sim = Ratio(pk.maxVal, Levels),
                                         !.loc = pk.maxLoc]]
         ELSE [ret |-> {RetNone}, steps |-> st, hotmap |-> logged]

\* -------------------------------------------------------------- find_all
\* mutant: autopy is replaced by another method
match_template_name_ccorr(tmatch) ==
    IF tmatch = "autopy" THEN "ccorr_normed" ELSE tmatch

\* "autopy template matching for find_all is replaced by ccoeff_normed"
match_template_name(tmatch) ==
    IF tmatch = "autopy" THEN "ccoeff_normed" ELSE tmatch

\* mutant: the window stops one column and one row early
Wipe_short(result, maxLoc, w, h) ==
    LET x0 == Max2(maxLoc[1] - HalfSize(w), 0)
        x1 == Min2(maxLoc[1] + HalfSize(w) - 1, Width(result))
        y0 == Max2(maxLoc[2] - HalfSize(h), 0)
        y1 == Min2(maxLoc[2] + HalfSize(h) - 1, Height(result))
    IN [j \in DOMAIN result |->
          [i \in DOMAIN result[j] |->
              IF (x0 =< i /\ i < x1 /\ y0 =< j /\ j < y1) \/ <<i, j>> = maxLoc
              THEN 0 ELSE result[j][i]]]

\* "clean found image to look for next safe distance match": the cells
\* result[j][i] the two range() loops visit are set to 0.0
Wipe(result, maxLoc, w, h) ==
    LET x0 == Max2(maxLoc[1] - HalfSize(w), 0)
        x1 == Min2(maxLoc[1] + HalfSize(w), Width(result))
        y0 == Max2(maxLoc[2] - HalfSize(h), 0)
        y1 == Min2(maxLoc[2] + HalfSize(h), Height(result))
    IN [j \in DOMAIN result |->
          [i \in DOMAIN result[j] |->
              IF x0 =< i /\ i < x1 /\ y0 =< j /\ j < y1
              THEN 0 ELSE result[j][i]]]

\* The extraction loop "while True", run from the surface result with the
\* list maxima.  One iteration reads the best peak, stops when it is below
\* similarity, otherwise records it and wipes its window.  The body is a
\* function of result alone, so an iteration that records a peak and leaves
\* result unchanged is repeated forever: the loop diverges.
RECURSIVE ExtractMaxima(_, _, _, _, _, _)
ExtractMaxima(result, maxima, tmatch, similarity, w, h) ==
    LET pk == BestPeak(result, tmatch)
    IN IF BelowSimilarity(pk.maxVal, similarity)
       THEN [kind |-> "list", maxima |-> maxima, result |-> result, pk |-> pk]
       ELSE LET more == Append(maxima, Location(pk.maxLoc[1], pk.maxLoc[2]))
                wiped == Wipe(result, pk.maxLoc, w, h)
            IN IF wiped = result
               THEN [kind |-> "diverges", maxima |-> more, result |-> result,
                     pk |-> pk]
               ELSE ExtractMaxima(wiped, more, tmatch, similarity, w, h)

\* find_all after the check of the configured name, given the outcome m of
\* _match_template
find_all_opencv(m, tmatch, similarity, w, h, logging, hm) ==
    IF m.kind = "raise"
    THEN [ret |-> {Raise("ImageFinderMethodError")}, steps |-> m.steps, hotmap |-> hm]
    ELSE IF m.kind = "None"
    THEN [ret |-> {Raise(e) : e \in NoneSurfaceErrors},
          steps |-> Append(m.steps, Step("minMaxLoc", "None")), hotmap |-> hm]
    ELSE
      LET ex == ExtractMaxima(m.result, <<>>, tmatch, similarity, w, h)
          st == Append(m.steps, Step("minMaxLoc", "surface"))
                  \o (IF ex.maxima = <<>> THEN <<>> ELSE <<Step("wipe", "surface")>>)
          logged == IF logging =< 40 THEN [hm EXCEPT !.img = "surface"] ELSE hm
      IN IF ex.kind = "diverges"
         THEN [ret |-> {RetDiverges(ex.maxima)}, steps |-> st, hotmap |-> hm]
         ELSE [ret |-> {RetList(ex.maxima)}, steps |-> st,
               hotmap |-> [logged EXCEPT !.sim = Ratio(ex.pk.maxVal, Levels),
                                         !.loc = ex.pk.maxLoc]]

\* ------------------------------------------------------------------ inputs
NeedleSizes == 1..MaxNeedle
\* a haystack up to the size that gives MaxCells cells in a row or a column
HaystackSizes == 1..(MaxCells + MaxNeedle - 1)
NeedleFiles == {"a.png", "b.png"}

\* the haystack fits the needle and the surface has at most MaxCells cells
Fits(W, H, w, h) ==
    /\ W >= w /\ H >= h
    /\ res_w(W, w) * res_h(H, h) =< MaxCells

\* the surfaces of a call: every array of the result's shape, or no array
\* at all when the needle is larger than the haystack
CallSurfaces(W, H, w, h) ==
    IF W >= w /\ H >= h THEN Surfaces(res_w(W, w), res_h(H, h)) ELSE {<<>>}

\* The finder has served no call since it was constructed.  Each finder
\* serves one call: the calls below start from a newly constructed finder.
Fresh == ret.kind = "none"

\* no feature search is in progress
NoFrame == [pc |-> "idle"]

\* a feature search is in progress
Searching == frame.pc # "idle"

\* ----------------------------------------------------------------- actions
\* ImageFinder.__init__: a new finder over the equalizer in use
Construct ==
    /\ frame.pc = "idle"
    /\ current' = current
    /\ image_logging' = 20
    /\ hotmap' = InitHotmap
    /\ bitmapcache' = {}
    /\ call' = NoCall
    /\ steps' = <<>>
    /\ ret' = NoRet
    /\ frame' = NoFrame

Finish(out) ==
    /\ ret' \in out.ret
    /\ steps' = out.steps
    /\ hotmap' = out.hotmap

\* find_template(haystack, needle, similarity, nocolor): surface is what
\* cv2.matchTemplate yields on these images, coord what autopy's find_bitmap
\* yields
find_template(via, W, H, w, h, similarity, surface, file, coord) ==
    /\ call' = [TemplateCall("find_template", W, H, w, h, similarity, surface)
                    EXCEPT !.via = via,
                           !.file = IF current.tmatch = "autopy"
                                    THEN file ELSE "none"]
    /\ UNCHANGED <<current, image_logging, frame>>
    /\ IF current.tmatch \notin template_matchers
       THEN /\ ret' = Raise("ImageFinderMethodError")
            /\ steps' = <<>>
            /\ UNCHANGED <<hotmap, bitmapcache>>
       ELSE IF current.tmatch = "autopy"
       THEN /\ bitmapcache' = bitmapcache \cup {file}
            /\ steps' = <<Step("find_bitmap", "autopy")>>
            /\ IF coord # NoLoc
               THEN /\ hotmap' = [hotmap EXCEPT !.sim = Literal(-1), !.loc = coord]
                    /\ ret' = RetLocation(Location(coord[1], coord[2]))
               ELSE /\ ret' = RetNone
                    /\ UNCHANGED hotmap
       ELSE /\ Finish(find_template_opencv(
                        _match_template(W, H, w, h, current.tmatch, surface),
                        current.tmatch, similarity, image_logging, hotmap))
            /\ UNCHANGED bitmapcache

\* find_all(haystack, needle, similarity, nocolor)
find_all(W, H, w, h, similarity, surface) ==
    /\ call' = TemplateCall("find_all", W, H, w, h, similarity, surface)
    /\ UNCHANGED <<current, image_logging, bitmapcache, frame>>
    /\ IF current.tmatch \notin template_matchers
       THEN /\ ret' = Raise("ImageFinderMethodError")
            /\ steps' = <<>>
            /\ UNCHANGED hotmap
       ELSE Finish(find_all_opencv(
                     _match_template(W, H, w, h,
                                     match_template_name(current.tmatch), surface),
                     current.tmatch, similarity, w, h, image_logging, hotmap))

\* what autopy's find_bitmap can answer: a position of the needle or None
Coords(W, H, w, h) ==
    IF W >= w /\ H >= h
    THEN Cells(res_w(W, w), res_h(H, h)) \cup {NoLoc} ELSE {NoLoc}

FindTemplate ==
    /\ Fresh /\ ~Searching
    /\ \E W \in HaystackSizes, H \in HaystackSizes,
          w \in NeedleSizes, h \in NeedleSizes, similarity \in Sims :
         /\ W < w \/ H < h \/ Fits(W, H, w, h)
         /\ \E surface \in CallSurfaces(W, H, w, h), file \in NeedleFiles,
               coord \in Coords(W, H, w, h) :
              find_template("find_template", W, H, w, h, similarity, surface,
                            file, coord)

FindAll ==
    /\ Fresh /\ ~Searching
    /\ \E W \in HaystackSizes, H \in HaystackSizes,
          w \in NeedleSizes, h \in NeedleSizes, similarity \in Sims :
         /\ W < w \/ H < h \/ Fits(W, H, w, h)
         /\ \E surface \in CallSurfaces(W, H, w, h) :
              find_all(W, H, w, h, similarity, surface)

\* --------------------------------------------- template matching: SpecT
InitT ==
    /\ current \in TemplateConfigs
    /\ image_logging = 20
    /\ hotmap = InitHotmap
    /\ bitmapcache = {}
    /\ call = NoCall
    /\ steps = <<>>
    /\ ret = NoRet
    /\ frame = NoFrame

NextT == Construct \/ FindTemplate \/ FindAll

SpecT == InitT /\ [][NextT]_vars

\* ========================================================== feature matching
\* "minimum 4 features are required for calculating the homography matrix"
MinFeatures == 4
\* "i, maxzoom = 0, 5"
maxzoom == 5

\* eq.algorithms["feature_detectors"], ["feature_extractors"] and
\* ["feature_matchers"]: the names the equalizer lists as tested
feature_detectors == {"ORB"}
feature_extractors == {"ORB"}
feature_matchers == {"BruteForce-Hamming"}

\* the configurations of the feature searches: the default, the names the
\* code handles itself (oldSURF, in-house) and an unsupported name in each
\* position
FeatureConfigs ==
    {[DefaultCurrent EXCEPT !.find = "feature", !.fdetect = c[1],
                            !.fextract = c[2], !.fmatch = c[3]] :
        c \in {<<"ORB", "ORB", "BruteForce-Hamming">>,
               <<"oldSURF", "ORB", "BruteForce-Hamming">>,
               <<"ORB", "ORB", "in-house">>,
               <<"unsupported", "ORB", "BruteForce-Hamming">>,
               <<"ORB", "unsupported", "BruteForce-Hamming">>,
               <<"oldSURF", "unsupported", "BruteForce-Hamming">>,
               <<"ORB", "ORB", "unsupported">>}}

\* the numbers of keypoints a detector can find: none, too few, enough
KpCounts == {0, MinFeatures - 1} \cup MinFeatures..MaxKp

\* the points the needle center can be projected to, in tile coordinates
Points == {<<0, 0>>, <<1, 1>>}

\* the tilings find_hybrid is called with here: a haystack of one tile, and
\* one of two tiles side by side
HybridGeometries ==
    {[W |-> g[1], H |-> g[2], x |-> g[3], y |-> 1, dx |-> 1, dy |-> 1] :
        g \in {<<1, 1, 1>>, <<2, 1, 1>>}}

\* the condition of "while len(hkeypoints) < 4 or len(nkeypoints) < 4 and
\* i < maxzoom": Python's "and" binds tighter than "or"
LoopCondition(hk, nk, i) ==
    hk < MinFeatures \/ (nk < MinFeatures /\ i < maxzoom)

\* the branches of the detection round that do not raise
SupportedDetection(detect, extract) ==
    \/ detect = "oldSURF"
    \/ (detect \in feature_detectors /\ extract \in feature_extractors)

\* the branches of the matcher selection that do not raise
SupportedMatcher(match) ==
    match = "in-house" \/ match \in feature_matchers

\* the test without its needle half
TooFewKeypoints_haystack(nk, hk) == hk < MinFeatures

\* "if len(nkp) < 4 or len(hkp) < 4"
TooFewKeypoints(nk, hk) == nk < MinFeatures \/ hk < MinFeatures

\* "if self.hotmap[1] < similarity or len(mnkp) < 4"
MatchRejected(sim, similarity, m) ==
    RatioBelow(sim, similarity) \/ m < MinFeatures

\* The matched haystack keypoints, in the order of the sorted matches.  A
\* keypoint is named by the place of its first occurrence among the
\* distinct ones, so each list stands for every list with the same repeats.
MatchLists(m, hk) ==
    {l \in [1..m -> 1..hk] :
        \A k \in 1..m :
            \/ \E b \in 1..(k - 1) : l[b] = l[k]
            \/ l[k] = 1 + Cardinality({l[b] : b \in 1..(k - 1)})}

\* mhkp.index(kp): the first position holding the keypoint
Index(mhkp, kp) ==
    CHOOSE k \in 1..Len(mhkp) :
        mhkp[k] = kp /\ \A b \in 1..(k - 1) : mhkp[b] # kp

\* "measure total used features for the projected focus point"
total_matches(mhkp, mask) ==
    Cardinality({k \in 1..Len(mhkp) : mask[Index(mhkp, mhkp[k])] = 1})

\* hfactor and nfactor: "hfactor *= 2", "nfactor *= 2"
Factor(zooms) == 2 ^ zooms

\* the factors the keypoints of the haystack and of the needle are divided
\* by when the loop of _detect_features has ended
hfactor == Factor(frame.hzoom)
nfactor == Factor(frame.nzoom)

CeilDiv(a, b) == (a + b - 1) \div b

\* nx and ny with the quotient rounded down
TilesAcross_floor(W, x, dx) == (Max2(W - x, 0) \div Min2(dx, W)) + 1

\* nx and ny of find_hybrid
TilesAcross(W, x, dx) == CeilDiv(Max2(W - x, 0), Min2(dx, W)) + 1

\* the local variables of a search: the loop state of _detect_features
\* (hzoom and nzoom count the doublings of hfactor and nfactor, hdet and
\* ndet the doublings of the images the latest detection ran on), the
\* matched keypoints, and for find_hybrid the tile (ti, tj), the grid and
\* the locations
NewFrame(mode, nx, ny, logging) ==
    [pc |-> "detect", mode |-> mode, i |-> 0, hk |-> 0, nk |-> 0,
     hzoom |-> 0, nzoom |-> 0, hdet |-> 0, ndet |-> 0, mhkp |-> <<>>,
     ti |-> 0, tj |-> 0, nx |-> nx, ny |-> ny,
     result |-> [c \in {<<j, i>> : j \in 0..(ny - 1), i \in 0..(nx - 1)} |->
                    Literal(0)],
     locations |-> <<>>, logging |-> logging]

\* the frame at the start of _detect_features for the next tile
NextTileFrame(f) ==
    [f EXCEPT !.pc = "detect", !.i = 0, !.hk = 0, !.nk = 0, !.hzoom = 0,
              !.nzoom = 0, !.hdet = 0, !.ndet = 0, !.mhkp = <<>>,
              !.ti = IF f.tj + 1 < f.ny THEN f.ti ELSE f.ti + 1,
              !.tj = IF f.tj + 1 < f.ny THEN f.tj + 1 ELSE 0]

LastTile(f) == f.tj + 1 = f.ny /\ f.ti + 1 = f.nx

\* An exception leaves the search: nothing after the raise runs.
RaiseOut(e) ==
    /\ ret' = Raise(e)
    /\ frame' = NoFrame
    /\ UNCHANGED <<current, image_logging, bitmapcache>>

\* The evaluation of the haystack (find_features) or of the tile
\* (find_hybrid) ends with hotmap hm: score is the similarity it reached,
\* found whether a projected point cleared the required similarity.  cl
\* records what the evaluation matched; the record of a tile ends with it.
EndEvaluation(score, found, hm, cl) ==
    /\ UNCHANGED <<current, bitmapcache>>
    /\ IF frame.mode = "find_features"
       THEN /\ ret' = IF found THEN RetLocation(Location(hm.loc[1], hm.loc[2]))
                      ELSE RetNone
            /\ frame' = NoFrame
            /\ hotmap' = hm
            /\ call' = cl
            /\ UNCHANGED image_logging
       ELSE LET left == frame.ti * Min2(call.geometry.dx, call.geometry.W)
                up == frame.tj * Min2(call.geometry.dy, call.geometry.H)
                cell == <<frame.tj, frame.ti>>
                grid == [frame.result EXCEPT ![cell] = score]
                locs == IF found
                        THEN (cell :> <<left + hm.loc[1], up + hm.loc[2]>>)
                                 @@ frame.locations
                        ELSE frame.locations
                f == [frame EXCEPT !.result = grid, !.locations = locs]
            IN IF LastTile(frame)
               THEN /\ image_logging' = frame.logging
                    /\ call' = cl
                    /\ hotmap' = IF frame.logging =< 40
                                 THEN [hm EXCEPT !.img = "grid"] ELSE hm
                    /\ ret' = [NoRet EXCEPT !.kind = "grid", !.grid = grid,
                                            !.locations = locs]
                    /\ frame' = NoFrame
               ELSE /\ frame' = NextTileFrame(f)
                    /\ hotmap' = hm
                    /\ call' = [cl EXCEPT !.matched = <<>>, !.inliers = -1,
                                          !.psim = Literal(0), !.point = NoLoc]
                    /\ UNCHANGED <<image_logging, ret>>

\* find_features(haystack, needle, similarity) up to the call of
\* _detect_features
find_features(via, similarity) ==
    /\ call' = [NoCall EXCEPT !.op = "find_features", !.via = via,
                              !.sim = similarity]
    /\ steps' = <<Step("_prepare_image", "haystack"),
                  Step("_prepare_image", "needle")>>
    /\ hotmap' = [img |-> "haystack", sim |-> Literal(0), loc |-> NoLoc]
    /\ frame' = NewFrame("find_features", 1, 1, image_logging)
    /\ UNCHANGED <<current, image_logging, bitmapcache, ret>>

FindFeatures ==
    /\ Fresh /\ ~Searching
    /\ \E similarity \in Sims : find_features("find_features", similarity)

\* find_hybrid(haystack, needle, similarity, x, y, dx, dy) up to the first
\* tile's call of _detect_features
FindHybrid ==
    /\ Fresh /\ ~Searching
    /\ \E similarity \in Sims, g \in HybridGeometries :
         /\ call' = [NoCall EXCEPT !.op = "find_hybrid", !.via = "find_hybrid",
                                   !.sim = similarity, !.geometry = g]
         /\ frame' = NewFrame("find_hybrid", TilesAcross(g.W, g.x, g.dx),
                              TilesAcross(g.H, g.y, g.dy), image_logging)
    /\ steps' = <<Step("_prepare_image", "haystack"),
                  Step("_prepare_image", "needle")>>
    /\ image_logging' = 50
    /\ hotmap' = [img |-> "None", sim |-> Literal(0), loc |-> NoLoc]
    /\ UNCHANGED <<current, bitmapcache, ret>>

\* One round of the loop of _detect_features.  A detector is a function of
\* the image: an image that was not zoomed after the last round (it had
\* enough keypoints) yields the same keypoints again.
DetectRound ==
    /\ frame.pc = "detect"
    /\ LoopCondition(frame.hk, frame.nk, frame.i)
    /\ frame.i < MaxRounds
    /\ UNCHANGED call
    /\ IF ~SupportedDetection(current.fdetect, current.fextract)
       THEN /\ RaiseOut("ImageFinderMethodError")
            /\ UNCHANGED <<steps, hotmap>>
       ELSE /\ \E newh \in KpCounts, newn \in KpCounts :
                 /\ (frame.i > 0 /\ frame.hk >= MinFeatures) => newh = frame.hk
                 /\ (frame.i > 0 /\ frame.nk >= MinFeatures) => newn = frame.nk
                 /\ frame' = [frame EXCEPT
                        !.i = @ + 1, !.hk = newh, !.nk = newn,
                        !.hdet = frame.hzoom, !.ndet = frame.nzoom,
                        !.nzoom = IF newn < MinFeatures THEN @ + 1 ELSE @,
                        !.hzoom = IF newh < MinFeatures THEN @ + 1 ELSE @]
            /\ steps' = Log(steps, Step("detect", current.fdetect))
            /\ UNCHANGED <<current, image_logging, hotmap, bitmapcache, ret>>

\* The loop of _detect_features ends and the keypoints are returned; the
\* caller then tests their numbers.
DetectReturn ==
    /\ frame.pc = "detect"
    /\ ~LoopCondition(frame.hk, frame.nk, frame.i)
    /\ UNCHANGED steps
    /\ IF TooFewKeypoints(frame.nk, frame.hk)
       THEN EndEvaluation(Literal(0), FALSE, hotmap, call)
       ELSE /\ frame' = [frame EXCEPT !.pc = "match", !.i = 0, !.hzoom = 0,
                                       !.nzoom = 0, !.hdet = 0, !.ndet = 0]
            /\ UNCHANGED <<current, image_logging, hotmap, bitmapcache, ret,
                           call>>

\* _match_features, and the caller's test of what it matched: mhkp is the
\* list match_hkeypoints the matcher and its filters leave, at most one
\* match for each needle keypoint
MatchFeatures ==
    /\ frame.pc = "match"
    /\ IF ~SupportedMatcher(current.fmatch)
       THEN /\ RaiseOut("ImageFinderMethodError")
            /\ UNCHANGED <<call, steps, hotmap>>
       ELSE \E m \in 0..frame.nk : \E mhkp \in MatchLists(m, frame.hk) :
              LET cl == [call EXCEPT !.matched = mhkp, !.inliers = -1]
              IN
              /\ steps' = Log(steps, Step("knnMatch", current.fmatch))
              /\ IF frame.nk = 0
                 THEN /\ RaiseOut("ZeroDivisionError")
                      /\ call' = cl
                      /\ UNCHANGED hotmap
                 ELSE LET hm == [hotmap EXCEPT !.sim = Ratio(m, frame.nk)]
                      IN IF MatchRejected(hm.sim, call.sim, m)
                         THEN EndEvaluation(hm.sim, FALSE, hm, cl)
                         ELSE /\ frame' = [frame EXCEPT !.pc = "project",
                                                        !.mhkp = mhkp,
                                                        !.hk = 0, !.nk = 0]
                              /\ hotmap' = hm
                              /\ call' = cl
                              /\ UNCHANGED <<current, image_logging,
                                             bitmapcache, ret>>

\* _project_needle_center, and the caller's test of the similarity it
\* stored: mask is the inlier mask cv2.findHomography yields, pt the
\* projected needle center
ProjectNeedleCenter ==
    /\ frame.pc = "project"
    /\ \E mask \in [1..Len(frame.mhkp) -> {0, 1}], pt \in Points :
         LET cl == [call EXCEPT
                      !.inliers = Cardinality({k \in DOMAIN mask : mask[k] = 1}),
                      !.psim = IF Len(frame.mhkp) = 0 THEN Literal(0)
                               ELSE Ratio(total_matches(frame.mhkp, mask),
                                          Len(frame.mhkp)),
                      !.point = pt]
         IN
         /\ steps' = Log(steps, Step("findHomography", "RANSAC"))
         /\ IF Len(frame.mhkp) = 0
            THEN /\ RaiseOut("ZeroDivisionError")
                 /\ call' = cl
                 /\ UNCHANGED hotmap
            ELSE LET hm == [hotmap EXCEPT
                              !.sim = Ratio(total_matches(frame.mhkp, mask),
                                            Len(frame.mhkp)),
                              !.loc = pt]
                 IN EndEvaluation(hm.sim, ~RatioBelow(hm.sim, call.sim), hm, cl)

\* ------------------------------------------------ feature matching: SpecF
InitF ==
    /\ current \in FeatureConfigs
    /\ image_logging = 20
    /\ hotmap = InitHotmap
    /\ bitmapcache = {}
    /\ call = NoCall
    /\ steps = <<>>
    /\ ret = NoRet
    /\ frame = NoFrame

NextF ==
    \/ Construct
    \/ FindFeatures
    \/ FindHybrid
    \/ DetectRound
    \/ DetectReturn
    \/ MatchFeatures
    \/ ProjectNeedleCenter

SpecF == InitF /\ [][NextF]_vars

\* ==================================================================== find
\* the names eq.current["find"] is given here
FindNames == {"template", "feature", "hybrid", "unsupported"}

FindConfigs == {[DefaultCurrent EXCEPT !.find = f] : f \in FindNames}

\* find(haystack, needle, similarity, nocolor): "template" and "feature"
\* are the two names it has a branch for
Find ==
    /\ Fresh /\ ~Searching
    /\ IF current.find = "template"
       THEN \E W \in HaystackSizes, H \in HaystackSizes,
               w \in NeedleSizes, h \in NeedleSizes, similarity \in Sims :
              /\ W < w \/ H < h \/ Fits(W, H, w, h)
              /\ \E surface \in CallSurfaces(W, H, w, h), file \in NeedleFiles,
                    coord \in Coords(W, H, w, h) :
                   find_template("find", W, H, w, h, similarity, surface,
                                 file, coord)
       ELSE IF current.find = "feature"
       THEN \E similarity \in Sims : find_features("find", similarity)
       ELSE /\ \E similarity \in Sims :
                 call' = [NoCall EXCEPT !.op = "find", !.via = "find",
                                        !.sim = similarity]
            /\ ret' = Raise("ImageFinderMethodError")
            /\ steps' = <<>>
            /\ UNCHANGED <<current, image_logging, hotmap, bitmapcache, frame>>

\* -------------------------------------------------------- dispatch: SpecD
InitD ==
    /\ current \in FindConfigs
    /\ image_logging = 20
    /\ hotmap = InitHotmap
    /\ bitmapcache = {}
    /\ call = NoCall
    /\ steps = <<>>
    /\ ret = NoRet
    /\ frame = NoFrame

NextD ==
    \/ Construct
    \/ Find
    \/ DetectRound
    \/ DetectReturn
    \/ MatchFeatures
    \/ ProjectNeedleCenter

SpecD == InitD /\ [][NextD]_vars

\* ============================================================ a used finder
\* bitmap.Bitmap.open(filename): the picture stored in the file, named here
\* by the file
Open(file) == file

\* the bitmap some other cached file holds, when there is one
CachedBitmap_any(cache, file) ==
    IF cache \ {file} # {} THEN CHOOSE f \in cache \ {file} : TRUE
    ELSE Open(file)

\* "if needle.get_filename() in self._bitmapcache": the bitmap cached under
\* the file name, or else the one loaded from the file
CachedBitmap(cache, file) ==
    IF file \in cache THEN file ELSE Open(file)

\* autopy's find_bitmap as a function of the images: the surface tells how
\* well the needle's own picture fits at each offset of the haystack.  The
\* first offset within the tolerance is found; another picture is found
\* nowhere.
find_bitmap(surface, W, H, w, h, needle, autopy_needle, autopy_tolerance) ==
    IF W < w \/ H < h \/ autopy_needle # Open(needle)
    THEN NoLoc
    ELSE LET cs == {c \in Cells(res_w(W, w), res_h(H, h)) :
                        Levels - surface[c[2]][c[1]] =< autopy_tolerance}
         IN IF cs = {} THEN NoLoc
            ELSE CHOOSE c \in cs :
                     \A d \in cs : ScanIndex(surface, c) =< ScanIndex(surface, d)

\* the configurations of find on a finder that is used again
UsedConfigs ==
    {DefaultCurrent,
     [DefaultCurrent EXCEPT !.tmatch = "autopy"],
     [DefaultCurrent EXCEPT !.find = "feature"]}

\* The caller has taken the result and keeps the finder for the next call:
\* hotmap, bitmap cache and image_logging stay as the call left them.
Reuse ==
    /\ ret.kind # "none"
    /\ frame.pc = "idle"
    /\ call' = NoCall
    /\ steps' = <<>>
    /\ ret' = NoRet
    /\ UNCHANGED <<current, image_logging, hotmap, bitmapcache, frame>>

\* find on a finder that may have served calls before; autopy answers as a
\* function of the haystack and of the bitmap it is given
FindOnUsed ==
    /\ Fresh /\ ~Searching
    /\ IF current.find = "template"
       THEN \E W \in HaystackSizes, H \in HaystackSizes,
               w \in NeedleSizes, h \in NeedleSizes, similarity \in Sims :
              /\ W < w \/ H < h \/ Fits(W, H, w, h)
              /\ \E surface \in CallSurfaces(W, H, w, h), file \in NeedleFiles :
                   find_template("find", W, H, w, h, similarity, surface, file,
                                 find_bitmap(surface, W, H, w, h, file,
                                             CachedBitmap(bitmapcache, file),
                                             Levels - similarity))
       ELSE \E similarity \in Sims : find_features("find", similarity)

\* a call of another matcher between the calls of find: find_template on
\* a haystack of the needle's size while find is set to the feature matcher
OtherCall ==
    /\ current.find = "feature"
    /\ Fresh /\ ~Searching
    /\ \E similarity \in Sims, surface \in CallSurfaces(1, 1, 1, 1),
          file \in NeedleFiles :
         find_template("find_template", 1, 1, 1, 1, similarity, surface, file,
                       NoLoc)

\* ---------------------------------------------------- a used finder: SpecI
InitI ==
    /\ current \in UsedConfigs
    /\ image_logging = 20
    /\ hotmap = InitHotmap
    /\ bitmapcache = {}
    /\ call = NoCall
    /\ steps = <<>>
    /\ ret = NoRet
    /\ frame = NoFrame

NextI ==
    \/ Reuse
    \/ FindOnUsed
    \/ OtherCall
    \/ DetectRound
    \/ DetectReturn
    \/ MatchFeatures
    \/ ProjectNeedleCenter

SpecI == InitI /\ [][NextI]_vars

\* ======================================================= concurrent searches
\* Two callers run find_features on one finder at once.  Each has its own
\* local variables; self.hotmap is the finder's and is shared.  A step is
\* one stretch of find_features between two accesses of self.hotmap.
Threads == {1, 2}

\* the local variables of one caller: the statement it is at, the required
\* similarity, the numbers of needle keypoints and of matched pairs, what
\* it returned (out) and what its own values make it return (alone)
NewThread ==
    [pc |-> "idle", sim |-> 0, nk |-> 0, m |-> 0, out |-> NoRet,
     alone |-> NoRet]

Threaded(th) == [pc |-> "threads", th |-> th]

ThreadStep(t, new) ==
    /\ frame' = Threaded([frame.th EXCEPT ![t] = new])
    /\ UNCHANGED <<current, image_logging, bitmapcache, call, steps, ret>>

\* the caller returns out; alone stays as decided before, or is out
ThreadReturns(th, out, own) ==
    [th EXCEPT !.pc = "done", !.out = out, !.nk = 0, !.m = 0,
               !.alone = IF th.alone.kind = "none" THEN own ELSE th.alone]

\* lines 166-180: the hotmap is reset, _detect_features returns nk needle
\* keypoints and at least 4 haystack keypoints
ThreadDetect(t) ==
    /\ frame.th[t].pc = "idle"
    /\ hotmap' = [img |-> "haystack", sim |-> Literal(0), loc |-> NoLoc]
    /\ \E similarity \in Sims, nk \in KpCounts \ {0} :
         ThreadStep(t, IF TooFewKeypoints(nk, MinFeatures)
                       THEN ThreadReturns([frame.th[t] EXCEPT !.sim = similarity],
                                          RetNone, RetNone)
                       ELSE [frame.th[t] EXCEPT !.pc = "match",
                                                !.sim = similarity, !.nk = nk])

\* lines 182-183: _match_features stores matched/detected in hotmap[1]
ThreadMatch(t) ==
    /\ frame.th[t].pc = "match"
    /\ \E m \in 0..frame.th[t].nk :
         /\ hotmap' = [hotmap EXCEPT !.sim = Ratio(m, frame.th[t].nk)]
         /\ ThreadStep(t, [frame.th[t] EXCEPT
                !.pc = "matched", !.m = m,
                !.alone = IF MatchRejected(Ratio(m, frame.th[t].nk),
                                           frame.th[t].sim, m)
                          THEN RetNone ELSE NoRet])

\* lines 185-188: "if self.hotmap[1] < similarity or len(mnkp) < 4"
ThreadTestMatch(t) ==
    /\ frame.th[t].pc = "matched"
    /\ UNCHANGED hotmap
    /\ ThreadStep(t, IF MatchRejected(hotmap.sim, frame.th[t].sim, frame.th[t].m)
                     THEN ThreadReturns(frame.th[t], RetNone, RetNone)
                     ELSE [frame.th[t] EXCEPT !.pc = "project"])

\* line 190: _project_needle_center stores the inlier ratio in hotmap[1]
\* and the projected point in hotmap[2]
ThreadProject(t) ==
    /\ frame.th[t].pc = "project"
    /\ \E total \in 0..frame.th[t].m, pt \in Points :
         /\ hotmap' = [hotmap EXCEPT !.sim = Ratio(total, frame.th[t].m),
                                     !.loc = pt]
         /\ ThreadStep(t, [frame.th[t] EXCEPT
                !.pc = "projected",
                !.alone = IF @.kind # "none" THEN @
                          ELSE IF RatioBelow(Ratio(total, frame.th[t].m),
                                             frame.th[t].sim)
                          THEN RetNone
                          ELSE RetLocation(Location(pt[1], pt[2]))])

\* lines 194-197: "if self.hotmap[1] < similarity: return None; else:
\* return Location(*self.hotmap[2])"; unpacking None is a TypeError
ThreadTestProjection(t) ==
    /\ frame.th[t].pc = "projected"
    /\ UNCHANGED hotmap
    /\ ThreadStep(t, ThreadReturns(frame.th[t],
            IF RatioBelow(hotmap.sim, frame.th[t].sim) THEN RetNone
            ELSE IF hotmap.loc = NoLoc THEN Raise("TypeError")
            ELSE RetLocation(Location(hotmap.loc[1], hotmap.loc[2])),
            RetNone))

Detect == \E t \in Threads : ThreadDetect(t)
Match == \E t \in Threads : ThreadMatch(t)
TestMatch == \E t \in Threads : ThreadTestMatch(t)
Project == \E t \in Threads : ThreadProject(t)
TestProjection == \E t \in Threads : ThreadTestProjection(t)

\* ------------------------------------------------- concurrent searches: SpecC
InitC ==
    /\ current = [DefaultCurrent EXCEPT !.find = "feature"]
    /\ image_logging = 20
    /\ hotmap = InitHotmap
    /\ bitmapcache = {}
    /\ call = NoCall
    /\ steps = <<>>
    /\ ret = NoRet
    /\ frame = Threaded([t \in Threads |-> NewThread])

NextC == Detect \/ Match \/ TestMatch \/ Project \/ TestProjection

SpecC == InitC /\ [][NextC]_vars

\* ------------------------------------------- template matching: properties
\* the call made was served by OpenCV and the haystack holds the needle
OpenCVCall(op) ==
    /\ call.op = op
    /\ current.tmatch \in methods
    /\ call.W >= call.w /\ call.H >= call.h

CallCells == Cells(res_w(call.W, call.w), res_h(call.H, call.h))

\* the similarity a cell of the call's surface stands for: its value, or
\* 1 - value for the methods whose optimum is the minimum
Score(c) ==
    IF current.tmatch \in {"sqdiff", "sqdiff_normed"}
    THEN Levels - call.surface[c[2]][c[1]]
    ELSE call.surface[c[2]][c[1]]

\* C1: when the surface has its one global optimum, score 1.0, at (x, y)
\* (the needle is an exact crop at that offset), find_template returns the
\* Location (x, y) for every required similarity in [0, 1.0].
C1_ExactCropFound ==
    OpenCVCall("find_template") =>
        \A c \in CallCells :
            (Score(c) = Levels /\ \A d \in CallCells \ {c} : Score(d) < Levels)
                => ret = RetLocation(Location(c[1], c[2]))

MatchingSteps == {"matchTemplate", "minMaxLoc", "wipe"}

\* C2: with a needle wider or taller than the haystack, find_template and
\* find_all end in a dedicated size error and perform no matching step.
C2_SizeError ==
    (/\ call.op \in {"find_template", "find_all"}
     /\ current.tmatch \in methods
     /\ (call.W < call.w \/ call.H < call.h))
        => /\ ret = Raise("SizeError")
           /\ \A k \in 1..Len(steps) : steps[k].op \notin MatchingSteps

InWindow(q, p, w, h) ==
    /\ p[1] - (w \div 2) =< q[1] /\ q[1] < p[1] + (w \div 2)
    /\ p[2] - (h \div 2) =< q[2] /\ q[2] < p[2] + (h \div 2)

\* C4: in a list find_all returns, no location lies in the suppression
\* window of a location recorded before it.
C4_NoTwoInWindow ==
    (call.op = "find_all" /\ ret.kind = "list") =>
        \A a, b \in 1..Len(ret.maxima) :
            a < b => ~InWindow(ret.maxima[b], ret.maxima[a], call.w, call.h)

\* a returned list of two locations
C4_Witness ==
    /\ call.op = "find_all"
    /\ ret.kind = "list"
    /\ Len(ret.maxima) >= 2

IsPrefix(s, t) == Len(s) =< Len(t) /\ \A k \in 1..Len(s) : s[k] = t[k]

\* what find_all records on the call's surface with similarity s2 instead
Rerun(s2) ==
    ExtractMaxima(call.surface, <<>>, current.tmatch, s2, call.w, call.h)

\* C5: when find_all returns with similarity s1, it returns with every
\* s2 >= s1 too, and the list for s2 is a prefix of the list for s1.
C5_PrefixMonotone ==
    (OpenCVCall("find_all") /\ ret.kind \in {"list", "diverges"}) =>
        \A s2 \in Sims : s2 >= call.sim =>
            /\ ret.kind = "list" => Rerun(s2).kind = "list"
            /\ Rerun(s2).kind = "list" => IsPrefix(Rerun(s2).maxima, ret.maxima)

\* a returned list that a higher similarity cuts short
C5_Witness ==
    /\ OpenCVCall("find_all")
    /\ ret.kind = "list"
    /\ \E s2 \in Sims :
         /\ s2 > call.sim
         /\ Len(Rerun(s2).maxima) < Len(ret.maxima)

\* the method names handed to cv2.matchTemplate during the call
UsedMethods == {steps[k].arg : k \in {n \in 1..Len(steps) : steps[n].op = "matchTemplate"}}

MatcherOf(name) ==
    CASE name = "template" -> "find_template"
      [] name = "feature" -> "find_features"
      [] name = "hybrid" -> "find_hybrid"

\* C6: for each of the names template, feature and hybrid, find enters the
\* corresponding matcher and does not raise the configuration error; only
\* other names raise it.
C6_DispatchesRecognized ==
    call.via = "find" =>
        IF current.find \in {"template", "feature", "hybrid"}
        THEN call.op = MatcherOf(current.find)
        ELSE call.op = "find" /\ ret = Raise("ImageFinderMethodError")

\* ---------------------------------------------- feature matching: properties
\* a name the call depends on is one the code has no branch for
UnsupportedName ==
    \/ /\ call.op \in {"find_template", "find_all"}
       /\ current.tmatch \notin template_matchers
    \/ /\ call.op \in {"find_features", "find_hybrid"}
       /\ \/ current.fdetect \notin feature_detectors \cup {"oldSURF"}
          \/ current.fextract \notin feature_extractors
          \/ current.fmatch \notin feature_matchers \cup {"in-house"}

\* C7: a call under an unsupported template method, detector, extractor or
\* matcher name runs no image processing step and ends in
\* ImageFinderMethodError, never in another result.
C7_RaisesBeforeProcessing ==
    UnsupportedName =>
        /\ steps = <<>>
        /\ ret.kind # "none" => ret = Raise("ImageFinderMethodError")

\* a similarity is a defined number in [0, 1]: the literal 0.0, or a
\* quotient of at least 4 with the numerator within the denominator
DefinedSimilarity(r) ==
    \/ r = Literal(0)
    \/ r.den >= MinFeatures /\ 0 =< r.num /\ r.num =< r.den

\* C9: every similarity find_features or a tile of find_hybrid stores in
\* hotmap[1] (and from there in the score grid) is a defined number in
\* [0, 1]: matched/detected is only divided by at least 4 needle keypoints,
\* inliers/matched by at least 4 matched pairs, and no division fails.
C9_SimilarityDefined ==
    call.op \in {"find_features", "find_hybrid"} =>
        /\ DefinedSimilarity(hotmap.sim)
        /\ ret # Raise("ZeroDivisionError")
        /\ frame.pc = "match" => frame.nk >= MinFeatures
        /\ frame.pc = "project" => Len(frame.mhkp) >= MinFeatures
        /\ frame.pc # "idle" =>
              \A c \in DOMAIN frame.result : DefinedSimilarity(frame.result[c])
        /\ ret.kind = "grid" =>
              \A c \in DOMAIN ret.grid : DefinedSimilarity(ret.grid[c])

\* the second tile of a find_hybrid call stored the quotient of a
\* projection some of whose pairs are outliers
C9_Witness ==
    /\ call.op = "find_hybrid"
    /\ ret.kind = "grid"
    /\ call.inliers >= 0
    /\ hotmap.sim.den >= MinFeatures
    /\ 0 < hotmap.sim.num /\ hotmap.sim.num < hotmap.sim.den
    /\ <<0, 1>> \in DOMAIN ret.grid
    /\ ret.grid[<<0, 1>>] = hotmap.sim

\* C10: find_features returns None whenever fewer than 4 of the matched
\* pairs are inliers of the estimated homography.
C10_NoneBelowFourInliers ==
    (/\ call.op = "find_features"
     /\ ret.kind # "none"
     /\ call.inliers >= 0 /\ call.inliers < MinFeatures)
        => ret = RetNone

\* the library calls of the step being taken include the homography
Projects(sq) == \E k \in 1..Len(sq) : sq[k].op = "findHomography"

\* C11: the similarity _project_needle_center stores is the number of
\* matched pairs whose mask entry is 1 over the number of matched pairs,
\* also when a haystack keypoint is matched by several needle keypoints.
C11_InliersOverMatched ==
    (/\ call.op \in {"find_features", "find_hybrid"}
     /\ ret.kind # "none"
     /\ call.inliers >= 0)
        => hotmap.sim = Ratio(call.inliers, Len(call.matched))

\* find_features is at a test the search cannot pass: the zoom rounds are
\* used up with fewer than 4 keypoints in an image, or the matcher leaves
\* fewer than 4 pairs or a ratio below the required similarity
C12_Rejecting ==
    /\ frame.pc # "idle"
    /\ frame.mode = "find_features"
    /\ \/ /\ frame.pc = "detect"
          /\ frame.i >= maxzoom
          /\ SupportedDetection(current.fdetect, current.fextract)
          /\ TooFewKeypoints(frame.nk, frame.hk)
       \/ /\ frame.pc = "match"
          /\ SupportedMatcher(current.fmatch)
          /\ \/ Len(call'.matched) < MinFeatures
             \/ RatioBelow(Ratio(Len(call'.matched), frame.nk), call.sim)

\* C12: find_features returns None, without raising and without the
\* homography estimation, whenever an image has fewer than 4 keypoints,
\* fewer than 4 matched pairs remain, or matched/detected is below the
\* required similarity.
C12_ShortCircuits ==
    [][C12_Rejecting => (ret' = RetNone /\ ~Projects(steps'))]_vars

\* C13: _detect_features performs at most maxzoom rounds, whatever the
\* detector finds in the needle and in the haystack.
C13_AtMostMaxzoomRounds ==
    frame.pc # "idle" => frame.i =< maxzoom

\* C14: when _detect_features returns, the keypoints of each image are
\* divided by the zoom factor of the image they were detected on in the
\* last round.
C14_DividedByDetectionZoom ==
    (/\ frame.pc = "detect"
     /\ frame.i > 0
     /\ ~LoopCondition(frame.hk, frame.nk, frame.i))
        => /\ frame.hk > 0 => hfactor = Factor(frame.hdet)
           /\ frame.nk > 0 => nfactor = Factor(frame.ndet)

\* --------------------------------------------------- a used finder: properties
\* what the find call made returns on a newly constructed finder: the
\* template branches computed with the initial hotmap, logging level and
\* cache, the feature branch from what this call matched and projected
FreshResults ==
    IF call.op = "find_template"
    THEN IF current.tmatch = "autopy"
         THEN LET coord == find_bitmap(call.surface, call.W, call.H, call.w,
                                       call.h, call.file,
                                       CachedBitmap({}, call.file),
                                       Levels - call.sim)
              IN {IF coord # NoLoc THEN RetLocation(Location(coord[1], coord[2]))
                  ELSE RetNone}
         ELSE find_template_opencv(
                  _match_template(call.W, call.H, call.w, call.h,
                                  current.tmatch, call.surface),
                  current.tmatch, call.sim, 20, InitHotmap).ret
    ELSE IF call.inliers < 0 THEN {RetNone}
    ELSE IF RatioBelow(call.psim, call.sim) THEN {RetNone}
    ELSE {RetLocation(Location(call.point[1], call.point[2]))}

C16_ResultAsAlone ==
    frame.pc = "threads" =>
        \A t \in Threads :
            frame.th[t].pc = "done" => frame.th[t].out = frame.th[t].alone

\* ============================================ find_hybrid: the tiles, SpecH
\* the tilings whose tiles are evaluated here: two tiles side by side and
\* a grid of two by two
TileGeometries ==
    {[W |-> 2, H |-> h, x |-> 1, y |-> 1, dx |-> 1, dy |-> 1] : h \in {1, 2}}

\* the cells of the grid "result = numpy.zeros((ny, nx))", as (j, i)
GridCells(g) ==
    {<<j, i>> : j \in 0..(TilesAcross(g.H, g.y, g.dy) - 1),
                i \in 0..(TilesAcross(g.W, g.x, g.dx) - 1)}

\* What the library yields on the pixels of one tile and the needle: the
\* numbers of keypoints _detect_features returns (nk, hk), the number of
\* pairs _match_features leaves (m), the number of them counted as inliers
\* (tm) and the projected needle center (pt).
TileInputs ==
    {[nk |-> MinFeatures - 1, hk |-> MinFeatures, m |-> 0, tm |-> 0,
      pt |-> NoLoc],
     [nk |-> MinFeatures, hk |-> MinFeatures, m |-> MinFeatures - 1, tm |-> 0,
      pt |-> NoLoc]}
    \cup {[nk |-> MinFeatures, hk |-> MinFeatures, m |-> MinFeatures,
           tm |-> tm, pt |-> pt] : tm \in {1, MinFeatures}, pt \in Points}

\* "result[j][i] = self.hotmap[1]" in place of "result[j][i] = 0.0"
skipped_hotmap(hm) == [score |-> hm.sim, found |-> FALSE, hm |-> hm]

\* "if len(nkp) < 4 or len(hkp) < 4: result[j][i] = 0.0; continue": the
\* tile is scored 0.0 and the hotmap hm stays as it was
skipped(hm) == [score |-> Literal(0), found |-> FALSE, hm |-> hm]

\* The body of the loops of find_hybrid for one tile with the inputs t,
\* entered with the hotmap hm: the score it writes to its cell, whether it
\* adds a location, and the hotmap it leaves.
EvaluateTile(t, hm, similarity) ==
    IF TooFewKeypoints(t.nk, t.hk)
    THEN skipped(hm)
    ELSE LET matched == [hm EXCEPT !.sim = Ratio(t.m, t.nk)]
         IN IF MatchRejected(matched.sim, similarity, t.m)
            THEN [score |-> matched.sim, found |-> FALSE, hm |-> matched]
            ELSE LET projected == [matched EXCEPT !.sim = Ratio(t.tm, t.m),
                                                  !.loc = t.pt]
                 IN [score |-> projected.sim,
                     found |-> ~RatioBelow(projected.sim, similarity),
                     hm |-> projected]

\* "locations[(j, i)] = (left + self.hotmap[2][0], up + self.hotmap[2][1])"
Translated(g, cell, loc) ==
    <<cell[2] * Min2(g.dx, g.W) + loc[1], cell[1] * Min2(g.dy, g.H) + loc[2]>>

\* the grid and the locations after the tile of the cell was evaluated
Written(g, cell, o, result, locations) ==
    [result |-> [result EXCEPT ![cell] = o.score],
     locations |-> IF o.found
                   THEN (cell :> Translated(g, cell, o.hm.loc)) @@ locations
                   ELSE locations]

\* "for i in range(nx): for j in range(ny)": the k-th cell the loops visit
LoopCell(g, k) ==
    LET ny == TilesAcross(g.H, g.y, g.dy)
    IN <<(k - 1) % ny, (k - 1) \div ny>>

\* the loops of find_hybrid from their k-th tile on
RECURSIVE hybrid_loops(_, _, _, _, _, _, _)
hybrid_loops(g, inputs, similarity, k, hm, result, locations) ==
    IF k > Cardinality(GridCells(g))
    THEN [result |-> result, locations |-> locations]
    ELSE LET cell == LoopCell(g, k)
             o == EvaluateTile(inputs[cell], hm, similarity)
             w == Written(g, cell, o, result, locations)
         IN hybrid_loops(g, inputs, similarity, k + 1, o.hm, w.result,
                         w.locations)

\* "result = numpy.zeros((ny, nx))"
Zeros(g) == [c \in GridCells(g) |-> Literal(0)]

\* find_hybrid(haystack, needle, similarity, x, y, dx, dy) up to its
\* loops; the haystack is given by what each of its tiles yields
FindHybridTiles ==
    /\ Fresh /\ ~Searching
    /\ \E similarity \in Sims, g \in TileGeometries :
         \E inputs \in [GridCells(g) -> TileInputs] :
           /\ call' = [NoCall EXCEPT !.op = "find_hybrid",
                                     !.via = "find_hybrid",
                                     !.sim = similarity, !.geometry = g,
                                     !.surface = inputs]
           /\ frame' = [pc |-> "tiles", done |-> {}, result |-> Zeros(g),
                        locations |-> <<>>, logging |-> image_logging]
    /\ steps' = <<Step("_prepare_image", "haystack"),
                  Step("_prepare_image", "needle")>>
    /\ image_logging' = 50
    /\ hotmap' = [img |-> "None", sim |-> Literal(0), loc |-> NoLoc]
    /\ UNCHANGED <<current, bitmapcache, ret>>

\* One pass of the body of the loops, for a tile not evaluated yet.  The
\* tiles are taken in any order.
EvaluateAnyTile ==
    /\ frame.pc = "tiles"
    /\ \E cell \in GridCells(call.geometry) \ frame.done :
         LET o == EvaluateTile(call.surface[cell], hotmap, call.sim)
             w == Written(call.geometry, cell, o, frame.result,
                          frame.locations)
         IN /\ frame' = [frame EXCEPT !.done = @ \cup {cell},
                                      !.result = w.result,
                                      !.locations = w.locations]
            /\ hotmap' = o.hm
    /\ steps' = Log(steps, Step("detect", current.fdetect))
    /\ UNCHANGED <<current, image_logging, bitmapcache, call, ret>>

\* "self.image_logging = logging ... return result, locations"
HybridReturn ==
    /\ frame.pc = "tiles"
    /\ frame.done = GridCells(call.geometry)
    /\ image_logging' = frame.logging
    /\ hotmap' = IF frame.logging =< 40 THEN [hotmap EXCEPT !.img = "grid"]
                 ELSE hotmap
    /\ ret' = [NoRet EXCEPT !.kind = "grid", !.grid = frame.result,
                            !.locations = frame.locations]
    /\ frame' = NoFrame
    /\ UNCHANGED <<current, bitmapcache, call, steps>>

InitH ==
    /\ current = [DefaultCurrent EXCEPT !.find = "feature"]
    /\ image_logging = 20
    /\ hotmap = InitHotmap
    /\ bitmapcache = {}
    /\ call = NoCall
    /\ steps = <<>>
    /\ ret = NoRet
    /\ frame = NoFrame

NextH ==
    \/ FindHybridTiles
    \/ EvaluateAnyTile
    \/ HybridReturn

SpecH == InitH /\ [][NextH]_vars

\* what the loops of find_hybrid, run in the order of the code, return for
\* the call in progress
InLoopOrder ==
    hybrid_loops(call.geometry, call.surface, call.sim, 1,
                 [img |-> "None", sim |-> Literal(0), loc |-> NoLoc],
                 Zeros(call.geometry), <<>>)

\* the grid and the locations agree with those of the loop order on cell c
SameAt(result, locations, c) ==
    /\ result[c] = InLoopOrder.result[c]
    /\ c \in DOMAIN locations <=> c \in DOMAIN InLoopOrder.locations
    /\ c \in DOMAIN locations => locations[c] = InLoopOrder.locations[c]

\* C17: whatever the order in which the tiles of find_hybrid are evaluated,
\* every evaluated tile has written to its own cell [j][i] and key (j, i)
\* what the order of the code writes there, the cells of the tiles not yet
\* evaluated are untouched, and the pair returned is that of the code's
\* order: no tile's value depends on the hotmap another tile left.
C17_SameForEveryOrder ==
    /\ frame.pc = "tiles" =>
         /\ \A c \in frame.done : SameAt(frame.result, frame.locations, c)
         /\ \A c \in GridCells(call.geometry) \ frame.done :
              frame.result[c] = Literal(0) /\ c \notin DOMAIN frame.locations
    /\ (ret.kind = "grid" /\ call.surface # <<>>) =>
         /\ ret.grid = InLoopOrder.result
         /\ ret.locations = InLoopOrder.locations

\* the tile the code evaluates last was evaluated first and found a
\* location; the tile evaluated next was entered with the hotmap it left,
\* and was skipped for too few keypoints
C17_Witness ==
    /\ frame.pc = "tiles"
    /\ frame.done = {<<1, 1>>, <<0, 1>>}
    /\ DOMAIN frame.locations = {<<1, 1>>}
    /\ TooFewKeypoints(call.surface[<<0, 1>>].nk, call.surface[<<0, 1>>].hk)
    /\ hotmap.loc # NoLoc /\ hotmap.sim # Literal(0)

\* =========================================== find_hybrid: the tiling, SpecG
\* the haystack sizes, tile sizes and strides find_hybrid is called with:
\* a tile may be larger than the haystack, a stride is at most the tile
TilingGeometries ==
    {[W |-> W, H |-> H, x |-> x, y |-> y, dx |-> dx, dy |-> dy] :
        W \in 1..MaxSide, H \in 1..MaxSide,
        x \in 1..(MaxSide + 1), y \in 1..(MaxSide + 1),
        dx \in 1..(MaxSide + 1), dy \in 1..(MaxSide + 1)}

StrideWithinTile(g) == g.dx =< g.x /\ g.dy =< g.y

\* "left = i * dx; right = min(haystack.width, i * dx + x); up = j * dy;
\* down = min(haystack.height, j * dy + y)", dx and dy being the strides
\* after "dx = min(dx, haystack.width)"
TileOf(g, i, j) ==
    [i |-> i, j |-> j,
     left |-> i * Min2(g.dx, g.W),
     right |-> Min2(g.W, i * Min2(g.dx, g.W) + g.x),
     up |-> j * Min2(g.dy, g.H),
     down |-> Min2(g.H, j * Min2(g.dy, g.H) + g.y)]

\* the pixels of "hgray[up:down, left:right]", as (column, row)
Pixels(t) ==
    {<<px, py>> : px \in t.left..(t.right - 1), py \in t.up..(t.down - 1)}

\* One pass of the loops of find_hybrid as far as the slicing of the tile;
\* the pass of the last tile ends the loops.
Slice ==
    /\ frame.pc = "tiling"
    /\ LET g == call.geometry
           ny == TilesAcross(g.H, g.y, g.dy)
           nx == TilesAcross(g.W, g.x, g.dx)
           tiles == frame.tiles \cup {TileOf(g, frame.i, frame.j)}
           i == IF frame.j + 1 < ny THEN frame.i ELSE frame.i + 1
           j == IF frame.j + 1 < ny THEN frame.j + 1 ELSE 0
       IN frame' = [pc |-> IF i < nx THEN "tiling" ELSE "tiled",
                    i |-> i, j |-> j, tiles |-> tiles]
    /\ UNCHANGED <<current, image_logging, hotmap, bitmapcache, call, steps,
                   ret>>

InitG ==
    /\ current = [DefaultCurrent EXCEPT !.find = "feature"]
    /\ image_logging = 50
    /\ hotmap = [img |-> "None", sim |-> Literal(0), loc |-> NoLoc]
    /\ bitmapcache = {}
    /\ \E g \in TilingGeometries :
         /\ StrideWithinTile(g)
         /\ call = [NoCall EXCEPT !.op = "find_hybrid", !.via = "find_hybrid",
                                  !.geometry = g]
    /\ steps = <<Step("_prepare_image", "haystack"),
                 Step("_prepare_image", "needle")>>
    /\ ret = NoRet
    /\ frame = [pc |-> "tiling", i |-> 0, j |-> 0, tiles |-> {}]

NextG == Slice

SpecG == InitG /\ [][NextG]_vars

\* C18: with strides of at least 1 and at most the tile size, every tile
\* the loops of find_hybrid slice is non-empty and inside the haystack,
\* there are nx*ny of them, and together they cover every pixel of the
\* haystack.
C18_TilesCoverHaystack ==
    frame.pc \in {"tiling", "tiled"} =>
        LET g == call.geometry
        IN /\ \A t \in frame.tiles :
                /\ t.left < t.right /\ t.up < t.down
                /\ 0 =< t.left /\ t.right =< g.W
                /\ 0 =< t.up /\ t.down =< g.H
           /\ frame.pc = "tiled" =>
                /\ Cardinality(frame.tiles) =
                      TilesAcross(g.W, g.x, g.dx) * TilesAcross(g.H, g.y, g.dy)
                /\ UNION {Pixels(t) : t \in frame.tiles} =
                      {<<px, py>> : px \in 0..(g.W - 1), py \in 0..(g.H - 1)}

\* the loops have ended on a haystack whose width is not a multiple of the
\* stride: the last of several tiles across is cut at the right edge
C18_Witness ==
    /\ frame.pc = "tiled"
    /\ call.geometry.x < call.geometry.W
    /\ \E t \in frame.tiles :
         /\ t.i > 0
         /\ t.right < t.left + call.geometry.x
         /\ t.right = call.geometry.W

\* C19: in the pair find_hybrid returns, locations has an entry for the
\* cell (j, i) exactly when the score result[j][i] is not below the
\* required similarity, and the entry of the tile evaluated last is the
\* point projected in that tile moved by the tile's origin (i*dx, j*dy).
C19_LocationIffScoreReached ==
    (ret.kind = "grid" /\ call.op = "find_hybrid" /\ call.surface = <<>>) =>
        LET g == call.geometry
            nx == TilesAcross(g.W, g.x, g.dx)
            ny == TilesAcross(g.H, g.y, g.dy)
            last == <<ny - 1, nx - 1>>
        IN /\ \A c \in DOMAIN ret.grid :
                c \in DOMAIN ret.locations <=>
                    ~RatioBelow(ret.grid[c], call.sim)
           /\ last \in DOMAIN ret.locations =>
                ret.locations[last] =
                    <<last[2] * Min2(g.dx, g.W) + call.point[1],
                      last[1] * Min2(g.dy, g.H) + call.point[2]>>

\* ====================================================== Region.find: SpecR
\* Here frame holds the region (its origin x, y and _last_match), the clock
\* (now, what time.time() returns, in seconds) and the local variables of
\* Region.find; steps records each attempt with the list the matcher
\* returned and each deadline check with the time it read.

\* the origins of the regions
Origins == {<<0, 0>>, <<1, 2>>}

\* the lists cv_backend.find(target, screen_capture) can return: nothing,
\* one match, or several matches, each given by its place in the capture
FoundPics ==
    {<<>>} \cup {<<m>> : m \in Points}
           \cup {<<m1, m2>> : m1 \in Points, m2 \in Points}

\* the timeouts a caller gives: in the past, none, and later
Timeouts == -1..MaxTimeout

\* the test with one match more
Found_several(found_pics) == Len(found_pics) > 1

\* "if len(found_pics) > 0"
Found(found_pics) == Len(found_pics) > 0

\* "elif time.time() > timeout_limit"
Elapsed(now, timeout_limit) == now > timeout_limit

\* "Match(match.x+self.x, match.y+self.y, ...)"
RegionMatch(match, x, y) == <<match[1] + x, match[2] + y>>

\* how a FindError leaves the method called: exists turns it into None
FindError(via) == IF via = "exists" THEN RetNone ELSE Raise("FindError")

\* Region.find(target, timeout) up to its loop, called directly or by
\* Region.exists: a target that does not fit the region's matcher raises
\* IncompatibleTargetError, which exists does not catch
RegionFind ==
    /\ frame.pc = "ready"
    /\ \E via \in {"find", "exists"}, timeout \in Timeouts,
          compatible \in BOOLEAN :
         /\ call' = [NoCall EXCEPT !.op = "Region.find", !.via = via]
         /\ IF compatible
            THEN /\ frame' = [frame EXCEPT !.pc = "capture",
                                           !.timeout = timeout,
                                           !.timeout_limit = frame.now + timeout]
                 /\ UNCHANGED ret
            ELSE /\ frame' = [frame EXCEPT !.pc = "returned",
                                           !.timeout = timeout]
                 /\ ret' = Raise("IncompatibleTargetError")
    /\ UNCHANGED <<current, image_logging, hotmap, bitmapcache, steps>>

\* "screen_capture = dc_backend.capture_screen(self); found_pics =
\* cv_backend.find(target, screen_capture)" and the test of what was found;
\* the capture and the matching take dt seconds
CaptureAndMatch ==
    /\ frame.pc = "capture"
    /\ frame.attempts < MaxAttempts
    /\ \E found_pics \in FoundPics, dt \in 0..1 :
         /\ steps' = Append(steps, Step("find", found_pics))
         /\ IF Found(found_pics)
            THEN LET match == RegionMatch(found_pics[1], frame.x, frame.y)
                 IN /\ frame' = [frame EXCEPT !.pc = "returned",
                                              !.attempts = @ + 1,
                                              !.now = @ + dt,
                                              !.last_match = match]
                    /\ ret' = RetLocation(match)
            ELSE /\ frame' = [frame EXCEPT !.pc = "check",
                                           !.attempts = @ + 1,
                                           !.now = @ + dt]
                 /\ UNCHANGED ret
    /\ UNCHANGED <<current, image_logging, hotmap, bitmapcache, call>>

\* "elif time.time() > timeout_limit: ... raise FindError(target)", with
\* the dump of haystack and needle when save_needle_on_error is set, and
\* "else: time.sleep(GlobalSettings.rescan_speed_on_find)"
DeadlineCheck ==
    /\ frame.pc = "check"
    /\ IF Elapsed(frame.now, frame.timeout_limit)
       THEN /\ \E save_needle_on_error \in BOOLEAN :
                 steps' = Append(steps,
                     Step("deadline", [now |-> frame.now,
                                       timeout_limit |-> frame.timeout_limit,
                                       dump |-> save_needle_on_error]))
            /\ ret' = FindError(call.via)
            /\ frame' = [frame EXCEPT !.pc = "returned"]
       ELSE /\ steps' = Append(steps,
                     Step("deadline", [now |-> frame.now,
                                       timeout_limit |-> frame.timeout_limit,
                                       dump |-> FALSE]))
            /\ frame' = [frame EXCEPT !.pc = "capture", !.now = @ + 1]
            /\ UNCHANGED ret
    /\ UNCHANGED <<current, image_logging, hotmap, bitmapcache, call>>

InitR ==
    /\ current = DefaultCurrent
    /\ image_logging = 20
    /\ hotmap = InitHotmap
    /\ bitmapcache = {}
    /\ call = NoCall
    /\ steps = <<>>
    /\ ret = NoRet
    /\ \E o \in Origins :
         frame = [pc |-> "ready", x |-> o[1], y |-> o[2], last_match |-> NoLoc,
                  now |-> 0, timeout |-> 0, timeout_limit |-> 0,
                  attempts |-> 0]

NextR ==
    \/ RegionFind
    \/ CaptureAndMatch
    \/ DeadlineCheck

SpecR == InitR /\ [][NextR]_vars

\* the attempts recorded in steps, by their places
Attempts == {k \in 1..Len(steps) : steps[k].op = "find"}

\* the find of the call ended with FindError
RaisedFindError ==
    /\ call.op = "Region.find"
    /\ \/ ret.kind = "raise" /\ ret.err = "FindError"
       \/ call.via = "exists" /\ ret.kind = "None"

\* C20: for every timeout, 0 and negative ones included, a Region.find
\* that got past the check of its target has captured and matched at
\* least once before it ends or tests the deadline; when it returns, the
\* attempt just made is the first that found something and the value is
\* that attempt's first match, moved by the region's origin; when it
\* raises FindError, no attempt found anything, and the last attempt was
\* followed by a deadline check that read a time after the limit.
C20_AttemptBeforeDeadline ==
    call.op = "Region.find" =>
        /\ (frame.pc \in {"check", "returned"}
              /\ ~(ret.kind = "raise" /\ ret.err = "IncompatibleTargetError"))
             => Attempts # {}
        /\ ret.kind = "Location" =>
             /\ steps[Len(steps)].op = "find"
             /\ steps[Len(steps)].arg # <<>>
             /\ ret.loc = <<steps[Len(steps)].arg[1][1] + frame.x,
                            steps[Len(steps)].arg[1][2] + frame.y>>
             /\ \A k \in Attempts \ {Len(steps)} : steps[k].arg = <<>>
        /\ RaisedFindError =>
             /\ \A k \in Attempts : steps[k].arg = <<>>
             /\ Len(steps) >= 2
             /\ steps[Len(steps)].op = "deadline"
             /\ steps[Len(steps)].arg.now > steps[Len(steps)].arg.timeout_limit
             /\ steps[Len(steps) - 1].op = "find"

\* a find with timeout 0 raised FindError after its one attempt
C20_Witness ==
    /\ RaisedFindError
    /\ call.via = "find"
    /\ frame.timeout = 0
    /\ Cardinality(Attempts) = 1

\* ================================================ Region.wait_vanish: SpecV
\* Here frame holds the region's origin, the clock (now, in the units of
\* the sleep of wait_vanish) and the local variable expires; steps records
\* each call of exists with what it returned.

RetTrue == [NoRet EXCEPT !.kind = "True"]

\* what self.exists(target, 0) can do: return None, return a match, or let
\* the IncompatibleTargetError of find through
ExistsOutcomes == {"None", "Match", "IncompatibleTargetError"}

\* "while time.time() < expires"
BeforeExpiry(now, expires) == now < expires

\* "expires = time.time() + timeout"
WaitVanish ==
    /\ frame.pc = "ready"
    /\ \E timeout \in 0..MaxTimeout :
         frame' = [frame EXCEPT !.pc = "test", !.timeout = timeout,
                                !.expires = frame.now + timeout]
    /\ call' = [NoCall EXCEPT !.op = "Region.wait_vanish",
                              !.via = "wait_vanish"]
    /\ UNCHANGED <<current, image_logging, hotmap, bitmapcache, steps, ret>>

\* the test of the while loop, and "raise NotFindError(target)" after it
ExpiryTest ==
    /\ frame.pc = "test"
    /\ IF BeforeExpiry(frame.now, frame.expires)
       THEN /\ frame' = [frame EXCEPT !.pc = "exists"]
            /\ UNCHANGED ret
       ELSE /\ frame' = [frame EXCEPT !.pc = "returned"]
            /\ ret' = Raise("NotFindError")
    /\ UNCHANGED <<current, image_logging, hotmap, bitmapcache, call, steps>>

\* "if self.exists(target, 0) is None: return True", else
\* "time.sleep(0.2)"; the check takes dt units of time, the sleep one
ExistsCheck ==
    /\ frame.pc = "exists"
    /\ \E outcome \in ExistsOutcomes, dt \in 0..1 :
         /\ steps' = Append(steps, Step("exists", outcome))
         /\ IF outcome = "Match"
            THEN /\ frame' = [frame EXCEPT !.pc = "test", !.now = @ + dt + 1]
                 /\ UNCHANGED ret
            ELSE /\ frame' = [frame EXCEPT !.pc = "returned", !.now = @ + dt]
                 /\ ret' = IF outcome = "None" THEN RetTrue
                           ELSE Raise("IncompatibleTargetError")
    /\ UNCHANGED <<current, image_logging, hotmap, bitmapcache, call>>

InitV ==
    /\ current = DefaultCurrent
    /\ image_logging = 20
    /\ hotmap = InitHotmap
    /\ bitmapcache = {}
    /\ call = NoCall
    /\ steps = <<>>
    /\ ret = NoRet
    /\ \E o \in Origins, now \in 0..MaxTimeout :
         frame = [pc |-> "ready", x |-> o[1], y |-> o[2], now |-> now,
                  timeout |-> 0, expires |-> 0]

NextV ==
    \/ WaitVanish
    \/ ExpiryTest
    \/ ExistsCheck

SpecV == InitV /\ [][NextV]_vars

\* C21: a wait_vanish that has ended, whatever its timeout >= 0, has
\* checked the target at least once; it returned True when a check found
\* nothing, and it raised NotFindError only when every one of its checks,
\* of which there is at least one, found the target.
C21_RaisesOnlyAfterCheck ==
    (call.op = "Region.wait_vanish" /\ frame.pc = "returned") =>
        /\ Len(steps) >= 1
        /\ ret.kind = "True" => steps[Len(steps)].arg = "None"
        /\ (ret.kind = "raise" /\ ret.err = "NotFindError") =>
             \A k \in 1..Len(steps) : steps[k].arg = "Match"

\* =================================================== Region geometry: SpecS
\* Here frame holds the screen of the region's desktop control backend
\* (dc_backend.width, dc_backend.height, 0 while it is not initialized),
\* the fields _xpos, _ypos, _width, _height of the region built last, the
\* method that built it (op) with its arguments (req), and for a region
\* derived from another the fields of that one (orig).

\* the sizes of a screen side; 0 is that of a backend not initialized
ScreenSides == 0..MaxSide

\* the coordinates and the sizes a caller asks for
Coordinates == -1..(MaxSide + 1)
Extents == 0..(MaxSide + 1)

\* the distances nearby, above, below, left and right are called with
Ranges == 0..MaxSide

\* Region._ensure_screen_clipping on the fields r
_ensure_screen_clipping(r, screen_width, screen_height) ==
    LET x1 == IF r.x < 0 THEN 0 ELSE r.x
        y1 == IF r.y < 0 THEN 0 ELSE r.y
        x2 == IF x1 > screen_width THEN screen_width - 1 ELSE x1
        y2 == IF y1 > screen_height THEN screen_height - 1 ELSE y1
    IN [x |-> x2, y |-> y2,
        width |-> IF x2 + r.width > screen_width THEN screen_width - x2
                  ELSE r.width,
        height |-> IF y2 + r.height > screen_height THEN screen_height - y2
                   ELSE r.height]

\* Region.__init__(xpos, ypos, width, height, dc, cv): the fields of the
\* new region on a screen of screen_width x screen_height
Region(xpos, ypos, width, height, screen_width, screen_height) ==
    LET r == [x |-> xpos, y |-> ypos,
              width |-> IF width = 0 /\ screen_width # 0 THEN screen_width
                        ELSE width,
              height |-> IF height = 0 /\ screen_height # 0 THEN screen_height
                         ELSE height]
    IN IF screen_width # 0 /\ screen_height # 0
       THEN _ensure_screen_clipping(r, screen_width, screen_height)
       ELSE r

\* the distance as it was given
ToEdge_never(rrange, side) == rrange

\* "if rrange == 0: rrange = self.dc_backend.height" (below), and the same
\* with the width (right)
ToEdge(rrange, side) == IF rrange = 0 THEN side ELSE rrange

\* "new_xpos = self._xpos - rrange; if new_xpos < 0: new_xpos = 0"
Back(pos, rrange) == IF pos - rrange < 0 THEN 0 ELSE pos - rrange

\* the fields of the region in frame
Fields(f) == [x |-> f.x, y |-> f.y, width |-> f.width, height |-> f.height]

\* the frame with the region new, built by op from the arguments req
Built(new, op, req, orig) ==
    [frame EXCEPT !.pc = "region", !.x = new.x, !.y = new.y,
                  !.width = new.width, !.height = new.height,
                  !.op = op, !.req = req, !.orig = orig]

Others == <<current, image_logging, hotmap, bitmapcache, call, steps, ret>>

\* Region(xpos, ypos, width, height)
NewRegion ==
    /\ frame.pc = "ready"
    /\ \E xpos \in Coordinates, ypos \in Coordinates,
          width \in Extents, height \in Extents :
         frame' = Built(Region(xpos, ypos, width, height,
                               frame.screen_width, frame.screen_height),
                        "Region",
                        [x |-> xpos, y |-> ypos, width |-> width,
                         height |-> height],
                        <<>>)
    /\ UNCHANGED Others

\* a region was built by the caller, and no region derived from it yet
Derivable == frame.pc = "region" /\ frame.op = "Region"

\* Region.nearby(rrange)
Nearby ==
    /\ Derivable
    /\ \E rrange \in Ranges :
         LET new_xpos == Back(frame.x, rrange)
             new_ypos == Back(frame.y, rrange)
             new_width == frame.width + rrange + frame.x - new_xpos
             new_height == frame.height + rrange + frame.y - new_ypos
         IN frame' = Built(Region(new_xpos, new_ypos, new_width, new_height,
                                  frame.screen_width, frame.screen_height),
                           "nearby", rrange, Fields(frame))
    /\ UNCHANGED Others

\* Region.above(rrange)
Above ==
    /\ Derivable
    /\ \E rrange \in Ranges :
         LET new_ypos == IF rrange = 0 THEN 0 ELSE Back(frame.y, rrange)
             new_height == IF rrange = 0 THEN frame.y + frame.height
                           ELSE frame.height + frame.y - new_ypos
         IN frame' = Built(Region(frame.x, new_ypos, frame.width, new_height,
                                  frame.screen_width, frame.screen_height),
                           "above", rrange, Fields(frame))
    /\ UNCHANGED Others

\* Region.below(rrange)
Below ==
    /\ Derivable
    /\ \E rrange \in Ranges :
         LET new_height == frame.height + ToEdge(rrange, frame.screen_height)
         IN frame' = Built(Region(frame.x, frame.y, frame.width, new_height,
                                  frame.screen_width, frame.screen_height),
                           "below", rrange, Fields(frame))
    /\ UNCHANGED Others

\* Region.left(rrange)
Left ==
    /\ Derivable
    /\ \E rrange \in Ranges :
         LET new_xpos == IF rrange = 0 THEN 0 ELSE Back(frame.x, rrange)
             new_width == IF rrange = 0 THEN frame.x + frame.width
                          ELSE frame.width + frame.x - new_xpos
         IN frame' = Built(Region(new_xpos, frame.y, new_width, frame.height,
                                  frame.screen_width, frame.screen_height),
                           "left", rrange, Fields(frame))
    /\ UNCHANGED Others

\* Region.right(rrange)
Right ==
    /\ Derivable
    /\ \E rrange \in Ranges :
         LET new_width == frame.width + ToEdge(rrange, frame.screen_width)
         IN frame' = Built(Region(frame.x, frame.y, new_width, frame.height,
                                  frame.screen_width, frame.screen_height),
                           "right", rrange, Fields(frame))
    /\ UNCHANGED Others

InitS ==
    /\ current = DefaultCurrent
    /\ image_logging = 20
    /\ hotmap = InitHotmap
    /\ bitmapcache = {}
    /\ call = NoCall
    /\ steps = <<>>
    /\ ret = NoRet
    /\ \E screen_width \in ScreenSides, screen_height \in ScreenSides :
         frame = [pc |-> "ready", screen_width |-> screen_width,
                  screen_height |-> screen_height, x |-> 0, y |-> 0,
                  width |-> 0, height |-> 0, op |-> "none", req |-> <<>>,
                  orig |-> <<>>]

NextS ==
    \/ NewRegion
    \/ Nearby
    \/ Above
    \/ Below
    \/ Left
    \/ Right

SpecS == InitS /\ [][NextS]_vars

\* the region r lies inside the screen of frame, an initialized one
InsideScreen(r) ==
    /\ frame.screen_width > 0 /\ frame.screen_height > 0
    /\ 0 =< r.x /\ 0 =< r.y
    /\ r.x + r.width =< frame.screen_width
    /\ r.y + r.height =< frame.screen_height

\* C22: on an initialized screen a rectangle asked for with positive width
\* and height becomes a region inside the screen of at least 1 x 1; from
\* the origin (0, 0) and larger than the screen it becomes the whole
\* screen, and with its origin at or beyond the right and bottom edges it
\* becomes 1 x 1.
C22_ClippedInsideScreen ==
    (frame.pc = "region" /\ frame.op = "Region"
       /\ frame.screen_width > 0 /\ frame.screen_height > 0
       /\ frame.req.width > 0 /\ frame.req.height > 0) =>
        /\ InsideScreen(Fields(frame))
        /\ frame.width >= 1 /\ frame.height >= 1
        /\ (frame.req.x = 0 /\ frame.req.y = 0
              /\ frame.req.width > frame.screen_width
              /\ frame.req.height > frame.screen_height) =>
             (frame.width = frame.screen_width
                /\ frame.height = frame.screen_height)
        /\ (frame.req.x >= frame.screen_width
              /\ frame.req.y >= frame.screen_height) =>
             (frame.width = 1 /\ frame.height = 1)

\* the region a contains the region b
Contains(a, b) ==
    /\ a.x =< b.x /\ a.y =< b.y
    /\ b.x + b.width =< a.x + a.width
    /\ b.y + b.height =< a.y + a.height

\* C23: a region derived by nearby, above, below, left or right with a
\* distance >= 0 from a region inside the screen contains that region and
\* lies inside the screen; with distance 0, above starts at the top edge,
\* below ends at the bottom edge, left starts at the left edge and right
\* ends at the right edge.
C23_DerivedContainsOriginal ==
    (frame.pc = "region"
       /\ frame.op \in {"nearby", "above", "below", "left", "right"}
       /\ InsideScreen(frame.orig)) =>
        /\ Contains(Fields(frame), frame.orig)
        /\ InsideScreen(Fields(frame))
        /\ frame.req = 0 =>
             /\ frame.op = "above" => frame.y = 0
             /\ frame.op = "below" =>
                  frame.y + frame.height = frame.screen_height
             /\ frame.op = "left" => frame.x = 0
             /\ frame.op = "right" =>
                  frame.x + frame.width = frame.screen_width

\* below(0) has stretched a region that ended above the bottom edge
C23_Witness ==
    /\ frame.pc = "region" /\ frame.op = "below" /\ frame.req = 0
    /\ InsideScreen(frame.orig)
    /\ frame.orig.width >= 1 /\ frame.orig.height >= 1
    /\ frame.orig.y + frame.orig.height < frame.screen_height
    /\ frame.height > frame.orig.height

\* ============================= find_all: the extraction loop by steps, SpecX
\* Here frame holds the local variables of find_all inside its loop
\* "while True": result and maxima, and the cells wiped so far (wiped).

\* the cells "result[j][i] = 0.0" is applied to around the peak maxLoc
Window(result, maxLoc, w, h) ==
    {c \in Cells(Width(result), Height(result)) :
        /\ Max2(maxLoc[1] - HalfSize(w), 0) =< c[1]
        /\ c[1] < Min2(maxLoc[1] + HalfSize(w), Width(result))
        /\ Max2(maxLoc[2] - HalfSize(h), 0) =< c[2]
        /\ c[2] < Min2(maxLoc[2] + HalfSize(h), Height(result))}

\* find_all(haystack, needle, similarity) up to its loop, for a configured
\* method that is supported and a needle that fits the haystack
StartExtraction ==
    /\ Fresh /\ ~Searching
    /\ current.tmatch \in template_matchers
    /\ \E W \in HaystackSizes, H \in HaystackSizes,
          w \in NeedleSizes, h \in NeedleSizes, similarity \in Sims :
         /\ Fits(W, H, w, h)
         /\ \E surface \in CallSurfaces(W, H, w, h) :
              /\ call' = TemplateCall("find_all", W, H, w, h, similarity,
                                      surface)
              /\ steps' = _match_template(W, H, w, h,
                              match_template_name(current.tmatch),
                              surface).steps
              /\ frame' = [pc |-> "extract", result |-> surface,
                           maxima |-> <<>>, wiped |-> {}]
    /\ UNCHANGED <<current, image_logging, hotmap, bitmapcache, ret>>

\* One iteration of the loop: the best peak is read; below the similarity
\* the loop is left and find_all returns, otherwise the peak is recorded
\* and its window wiped.  A loop that has recorded more peaks than the
\* surface has cells is followed no further.
ExtractionStep ==
    /\ frame.pc = "extract"
    /\ Len(frame.maxima) =< Width(frame.result) * Height(frame.result)
    /\ LET pk == BestPeak(frame.result, current.tmatch)
       IN IF BelowSimilarity(pk.maxVal, call.sim)
          THEN /\ ret' = RetList(frame.maxima)
               /\ hotmap' = [hotmap EXCEPT
                               !.img = IF image_logging =< 40 THEN "surface"
                                       ELSE @,
                               !.sim = Ratio(pk.maxVal, Levels),
                               !.loc = pk.maxLoc]
               /\ frame' = NoFrame
               /\ steps' = Log(steps, Step("minMaxLoc", "surface"))
          ELSE /\ frame' = [frame EXCEPT
                      !.maxima = Append(@, Location(pk.maxLoc[1],
                                                    pk.maxLoc[2])),
                      !.result = Wipe(@, pk.maxLoc, call.w, call.h),
                      !.wiped = @ \cup Window(frame.result, pk.maxLoc,
                                              call.w, call.h)]
               /\ steps' = Log(Log(steps, Step("minMaxLoc", "surface")),
                               Step("wipe", "surface"))
               /\ UNCHANGED <<hotmap, ret>>
    /\ UNCHANGED <<current, image_logging, bitmapcache, call>>

InitX ==
    /\ current \in TemplateConfigs
    /\ image_logging = 20
    /\ hotmap = InitHotmap
    /\ bitmapcache = {}
    /\ call = NoCall
    /\ steps = <<>>
    /\ ret = NoRet
    /\ frame = NoFrame

NextX ==
    \/ StartExtraction
    \/ ExtractionStep

SpecX == InitX /\ [][NextX]_vars

\* the number of cells of the surface not below the required similarity
Reaching(result, similarity) ==
    Cardinality({c \in Cells(Width(result), Height(result)) :
                    ~(result[c[2]][c[1]] < similarity)})

\* the loop of find_all is running under the conditions of C24
CorrelationLoop ==
    /\ frame.pc = "extract"
    /\ ~IsSqdiff(current.tmatch)
    /\ call.sim > 0
    /\ call.w >= 2 /\ call.h >= 2

\* C24: with a maximum-seeking method, a required similarity above 0 and a
\* needle of at least 2 x 2, every iteration of the extraction loop that
\* records a peak leaves fewer cells at or above the similarity than it
\* found, and the loop never records more peaks than the surface has
\* cells.
C24_EachIterationDecreases ==
    [][(CorrelationLoop /\ frame'.pc = "extract") =>
          /\ Reaching(frame'.result, call.sim)
                < Reaching(frame.result, call.sim)
          /\ Len(frame'.maxima)
                =< Width(frame.result) * Height(frame.result)]_vars

\* the loop has recorded two peaks under these conditions
C24_Witness ==
    /\ CorrelationLoop
    /\ Len(frame.maxima) = 2

\* C25: with sqdiff or sqdiff_normed and a required similarity in (0, 1],
\* the loop of find_all ends, having recorded no more peaks than the
\* surface has cells, and the peak it selects next is never a cell that
\* was wiped before.
C25_SqdiffTerminates ==
    (frame.pc = "extract" /\ IsSqdiff(current.tmatch) /\ call.sim > 0) =>
        LET pk == BestPeak(frame.result, current.tmatch)
        IN /\ Len(frame.maxima) =< Width(frame.result) * Height(frame.result)
           /\ BelowSimilarity(pk.maxVal, call.sim) \/ pk.maxLoc \notin frame.wiped

\* C26: for every needle size the window wiped after a peak was recorded
\* contains the peak's cell, and no location occurs twice in the list of
\* the recorded peaks.
C26_PeakWipedNeverRepeated ==
    frame.pc = "extract" =>
        /\ \A k \in 1..Len(frame.maxima) :
             \A l \in (k + 1)..Len(frame.maxima) :
                frame.maxima[k] # frame.maxima[l]
        /\ frame.maxima # <<>> =>
             frame.maxima[Len(frame.maxima)] \in frame.wiped

\* what find_all returns for the surface, method and similarity of the
\* find_template call made
AllOfCall ==
    find_all_opencv(_match_template(call.W, call.H, call.w, call.h,
                                    match_template_name(current.tmatch),
                                    call.surface),
                    current.tmatch, call.sim, call.w, call.h, image_logging,
                    InitHotmap).ret

\* C27: for one surface, method and similarity, find_template returns a
\* Location exactly when find_all returns a list that is not empty, and the
\* Location is then the first element of that list.
C27_TemplateIffAllNonEmpty ==
    (call.op = "find_template" /\ current.tmatch \in methods
       /\ call.surface # <<>> /\ ret.kind \in {"Location", "None"}) =>
        \A all \in AllOfCall :
            /\ ret.kind = "Location" <=> all.maxima # <<>>
            /\ ret.kind = "Location" => ret.loc = all.maxima[1]

\* ============================== _match_features: the symmetry test, SpecM
\* Here frame holds the arguments and the local variables of
\* _match_features: the numbers of needle and haystack keypoints (a
\* keypoint is named by its index), the matches of the two directions as
\* they enter the symmetry test, and the lists returned.

\* DMatch(queryIdx, trainIdx, distance)
DMatch(queryIdx, trainIdx, distance) ==
    [queryIdx |-> queryIdx, trainIdx |-> trainIdx, distance |-> distance]

\* the distances of the matches: near and far
Distances == {0, 1}

\* What knnMatch(desc1, desc2, k) leaves after "ratio_test(matches)" or
\* "[m[0] for m in matches]": in the order of the query descriptors, at
\* most one match for each of the nq queries, to one of the nt others.
RECURSIVE Filtered(_, _, _)
Filtered(q, nq, nt) ==
    IF q >= nq THEN {<<>>}
    ELSE LET rest == Filtered(q + 1, nq, nt)
         IN rest \cup {<<DMatch(q, t, d)>> \o r :
                          t \in 0..(nt - 1), d \in Distances, r \in rest}

\* the test on the query index alone
Mutual_half(nm, hm) == nm.trainIdx = hm.queryIdx

\* "if nm.queryIdx == hm.trainIdx and nm.trainIdx == hm.queryIdx"
Mutual(nm, hm) == nm.queryIdx = hm.trainIdx /\ nm.trainIdx = hm.queryIdx

\* symmetry_test(nmatches, hmatches): each needle match with a haystack
\* match in agreement is kept once, in the order of nmatches
symmetry_test(nmatches, hmatches) ==
    LET agreed(nm) == \E k \in 1..Len(hmatches) : Mutual(nm, hmatches[k])
        kept == SelectSeq(nmatches, agreed)
    IN [k \in 1..Len(kept) |->
          DMatch(kept[k].queryIdx, kept[k].trainIdx, kept[k].distance)]

\* "sorted(matches, key = lambda x: x.distance)": a stable sort
sorted(matches) ==
    LET near(m) == m.distance = 0
        far(m) == m.distance = 1
    IN SelectSeq(matches, near) \o SelectSeq(matches, far)

\* _match_features(hkeypoints, hdescriptors, nkeypoints, ndescriptors,
\* match) from the filtered matches on: the symmetry test, the sorting, the
\* lists of matched keypoints and the similarity reached
MatchSymmetric ==
    /\ frame.pc = "matching"
    /\ LET matches == sorted(IF frame.symmetryTest
                             THEN symmetry_test(frame.nmatches, frame.hmatches)
                             ELSE frame.nmatches)
           match_hkeypoints == [k \in 1..Len(matches) |-> matches[k].trainIdx]
           match_nkeypoints == [k \in 1..Len(matches) |-> matches[k].queryIdx]
       IN /\ frame' = [frame EXCEPT !.pc = "matched",
                                    !.match_hkeypoints = match_hkeypoints,
                                    !.match_nkeypoints = match_nkeypoints]
          /\ hotmap' = [hotmap EXCEPT
                          !.sim = Ratio(Len(match_nkeypoints), frame.nk)]
    /\ steps' = Log(steps, Step("knnMatch", current.fmatch))
    /\ UNCHANGED <<current, image_logging, bitmapcache, call, ret>>

InitM ==
    /\ current = [DefaultCurrent EXCEPT !.find = "feature"]
    /\ image_logging = 50
    /\ hotmap = [img |-> "haystack", sim |-> Literal(0), loc |-> NoLoc]
    /\ bitmapcache = {}
    /\ call = [NoCall EXCEPT !.op = "find_features", !.via = "find_features"]
    /\ steps = <<>>
    /\ ret = NoRet
    /\ \E nk \in 1..MaxDescriptors, hk \in 1..MaxDescriptors,
          symmetryTest \in BOOLEAN :
         \E nmatches \in Filtered(0, nk, hk), hmatches \in Filtered(0, hk, nk) :
           frame = [pc |-> "matching", nk |-> nk, hk |-> hk,
                    symmetryTest |-> symmetryTest,
                    nmatches |-> nmatches, hmatches |-> hmatches,
                    match_hkeypoints |-> <<>>, match_nkeypoints |-> <<>>]

NextM == MatchSymmetric

SpecM == InitM /\ [][NextM]_vars

\* the pairs (needle keypoint, haystack keypoint) of the lists returned
Returned ==
    {<<frame.match_nkeypoints[k], frame.match_hkeypoints[k]>> :
        k \in 1..Len(frame.match_nkeypoints)}

\* the pairs (query, train) of a list of matches
PairsOf(ms) == {<<ms[k].queryIdx, ms[k].trainIdx>> : k \in 1..Len(ms)}

\* C28: with the symmetry test enabled, the pairs _match_features returns
\* are exactly the needle-to-haystack matches (n, h) whose reverse (h, n)
\* is among the haystack-to-needle matches, each returned once, and no
\* needle keypoint and no haystack keypoint occurs in two returned pairs.
C28_MutualAndOneToOne ==
    (frame.pc = "matched" /\ frame.symmetryTest) =>
        /\ Returned = {p \in PairsOf(frame.nmatches) :
                          <<p[2], p[1]>> \in PairsOf(frame.hmatches)}
        /\ Len(frame.match_nkeypoints) = Cardinality(Returned)
        /\ \A p \in Returned, q \in Returned :
              (p[1] = q[1] \/ p[2] = q[2]) => p = q

\* two needle keypoints were matched to one haystack keypoint, and the
\* pair the haystack keypoint agrees with was returned alone
C28_Witness ==
    /\ frame.pc = "matched" /\ frame.symmetryTest
    /\ Cardinality(Returned) = 1
    /\ \E k \in 1..Len(frame.nmatches), l \in 1..Len(frame.nmatches) :
         /\ k # l
         /\ frame.nmatches[k].trainIdx = frame.nmatches[l].trainIdx

\* ================================================= Region.drag_drop: SpecP
\* Here frame holds the inputs the desktop control backend holds down (the
\* left mouse button, the modifier keys), the arguments of drag_drop and
\* the place the call has reached; steps records the calls made to the
\* backend.

\* what a caller drags from and drops at: a location, a match, or a target
\* still to be found on the screen
Places == {"Location", "Match", "Target"}

\* the modifiers argument: None or a list of keys
Modifiers == {"None", "Ctrl", "Ctrl+Shift"}

\* Region.hover(target_or_location): the mouse is moved to a location or a
\* match at once; a target is looked for with find, which returns a match
\* or raises FindError.  The place the mouse is moved to, or NoLoc when
\* find raised.
hover(place, found) == IF place = "Target" THEN found ELSE Points

\* drag_drop(src_target_or_location, dst_target_or_location, modifiers) up
\* to its call of drag_from
DragDrop ==
    /\ frame.pc = "ready"
    /\ \E src \in Places, dst \in Places, modifiers \in Modifiers :
         frame' = [frame EXCEPT !.pc = "drag_from", !.src = src, !.dst = dst,
                                !.modifiers = modifiers]
    /\ call' = [NoCall EXCEPT !.op = "Region.drag_drop", !.via = "drag_drop"]
    /\ UNCHANGED <<current, image_logging, hotmap, bitmapcache, steps, ret>>

\* Region.drag_from(target_or_location, modifiers)
DragFrom ==
    /\ frame.pc = "drag_from"
    /\ \E found \in {Points, {NoLoc}} : \E to \in hover(frame.src, found) :
         IF to = NoLoc
         THEN /\ ret' = Raise("FindError")
              /\ frame' = [frame EXCEPT !.pc = "returned"]
              /\ UNCHANGED steps
         ELSE /\ frame' = [frame EXCEPT
                             !.pc = "drop_at", !.mouse = to,
                             !.keys = frame.modifiers # "None",
                             !.button = TRUE]
              /\ steps' = steps \o <<Step("mouse_move", to)>>
                      \o (IF frame.modifiers # "None"
                          THEN <<Step("keys_toggle", TRUE)>> ELSE <<>>)
                      \o <<Step("mouse_down", "LEFT_BUTTON")>>
              /\ UNCHANGED ret
    /\ UNCHANGED <<current, image_logging, hotmap, bitmapcache, call>>

\* Region.drop_at(target_or_location, modifiers), and the return of
\* drag_drop
DropAt ==
    /\ frame.pc = "drop_at"
    /\ \E found \in {Points, {NoLoc}} : \E to \in hover(frame.dst, found) :
         IF to = NoLoc
         THEN /\ ret' = Raise("FindError")
              /\ frame' = [frame EXCEPT !.pc = "returned"]
              /\ UNCHANGED steps
         ELSE /\ frame' = [frame EXCEPT
                             !.pc = "returned", !.mouse = to,
                             !.button = FALSE,
                             !.keys = IF frame.modifiers # "None" THEN FALSE
                                      ELSE @]
              /\ steps' = steps \o <<Step("mouse_move", to),
                                     Step("mouse_up", "LEFT_BUTTON")>>
                      \o (IF frame.modifiers # "None"
                          THEN <<Step("keys_toggle", FALSE)>> ELSE <<>>)
              /\ ret' = IF frame.dst = "Target" THEN RetLocation(to)
                        ELSE RetNone
    /\ UNCHANGED <<current, image_logging, hotmap, bitmapcache, call>>

InitP ==
    /\ current = DefaultCurrent
    /\ image_logging = 20
    /\ hotmap = InitHotmap
    /\ bitmapcache = {}
    /\ call = NoCall
    /\ steps = <<>>
    /\ ret = NoRet
    /\ \E mouse \in Points :
         frame = [pc |-> "ready", mouse |-> mouse, button |-> FALSE,
                  keys |-> FALSE, src |-> "none", dst |-> "none",
                  modifiers |-> "None"]

NextP ==
    \/ DragDrop
    \/ DragFrom
    \/ DropAt

SpecP == InitP /\ [][NextP]_vars

\* C29: when drag_drop has finished, by returning or by raising, the left
\* mouse button and the modifier keys it pressed are released again; when
\* the drag source was not found, nothing was pressed.
C29_PressedIsReleased ==
    (call.op = "Region.drag_drop" /\ frame.pc = "returned") =>
        /\ ~frame.button
        /\ ~frame.keys
        /\ \A k \in 1..Len(steps) :
             /\ steps[k].op = "mouse_down" =>
                  \E l \in (k + 1)..Len(steps) : steps[l].op = "mouse_up"
             /\ (steps[k].op = "keys_toggle" /\ steps[k].arg) =>
                  \E l \in (k + 1)..Len(steps) :
                     steps[l].op = "keys_toggle" /\ ~steps[l].arg

\* C30: when find_hybrid has finished, by returning or by raising
\* ImageFinderMethodError from the evaluation of a tile, image_logging has
\* the value it had before the call, which for a newly constructed finder
\* is 20: the 50 set for the search does not outlive it.
C30_ImageLoggingRestored ==
    (call.op = "find_hybrid" /\ call.surface = <<>> /\ ~Searching
       /\ ret.kind # "none") =>
        image_logging = 20

====
